---- MODULE Spec2Model ----
(***************************************************************************)
(* The Set-based reactivity engine of naf-html.ts (signal / computed /     *)
(* effect, lines 43-154; naf.ts carries the same text), as a small-step    *)
(* state machine.  A call chain of the program (a write that notifies      *)
(* subscribers, which run effects, which read computeds, ...) is the       *)
(* sequence `stack` of frames; every step of a handler is one action.      *)
(***************************************************************************)
EXTENDS Integers, Sequences, FiniteSets, TLC

\* ------------------------------------------------------------------ bounds
\* Values a caller writes to a signal are 0..MaxVal.
MaxVal == 2
\* A leaked `activeSets` array (after an exception) is not grown past this.
MaxSubscribed == 4

\* Calls nested deeper than this overflow the JavaScript call stack.
MaxDepth == 10

\* list(): cloneNode is called at most MaxEls times.
MaxEls == 3

\* when(), each(), createRouter(): render functions create at most MaxComps
\* components.
MaxComps == 4

\* The window queues at most MaxEvents events.
MaxEvents == 2

\* The link-based engine holds at most MaxLinks links at a time.
MaxLinks == 8

\* An effect whose function calls effect() is run at most MaxInner times.
MaxInner == 3

\* ------------------------------------------------------------- identifiers
Cells == {"c1", "c2", "c3"}
Derivs == {"d1", "d2", "d3"}
\* The effects an effect's function creates, in the order of their creation.
InnerSeq == [i \in 1..MaxInner |-> "i" \o ToString(i)]
Inners == {InnerSeq[i] : i \in 1..MaxInner}
Reacts == {"r1", "r2"} \cup Inners
Deps == Cells \cup Derivs
\* A subscriber callback: an effect's `run` (named by the effect) or a
\* computed's `markDirty` (named by the computed).
Callbacks == Reacts \cup Derivs
None == "none"
Undef == -1

\* ------------------------------------------------- the application functions
\* The bodies of the functions handed to computed() and effect(), as
\* instruction sequences over the values read so far.
Rd(x) == [op |-> "read", x |-> x, n |-> 0]
Jz(n) == [op |-> "jz", x |-> None, n |-> n]
Wr(x, n) == [op |-> "write", x |-> x, n |-> n]
Stop(x) == [op |-> "dispose", x |-> x, n |-> 0]
Throw == [op |-> "throw", x |-> None, n |-> 0]
Ret(f, n) == [op |-> "ret", x |-> f, n |-> n]
\* The statements of the effects of when() and each().
Unm == [op |-> "unmount", x |-> None, n |-> 0]
Mk == [op |-> "render", x |-> None, n |-> 0]
MkAll == [op |-> "renderAll", x |-> None, n |-> 0]
\* effect(fn) called inside a function; the handle it returns is dropped.
Mke == [op |-> "effect", x |-> None, n |-> 0]

Scenarios ==
  {"chain", "diamond", "pair", "cond", "condD", "stop", "trigger", "self", "cycle",
   "same"}
ThrowScenarios == {"throw", "throwD"}
\* when and each alone, and a when whose `then` component holds a when or
\* an each over the same signal.
CompScenarios == {"when", "each", "whenWhen", "whenEach"}
Nested == {"whenWhen", "whenEach"}
\* An effect that creates an effect: the inner reads its own signal, or the
\* signal the outer depends on through a computed, or the signal the outer
\* reads.
NestScenarios == {"nest", "nestD", "nestS"}

CellsOf(s) ==
  CASE s \in {"chain", "diamond", "pair", "throw", "throwD", "self", "same", "twice",
              "nestS"} \cup CompScenarios -> {"c1"}
    [] s \in {"stop", "trigger", "cycle"} -> {"c1", "c2"}
    [] OTHER -> {"c1", "c2", "c3"}

DerivsOf(s) ==
  CASE s \in {"chain", "diamond"} -> {"d1", "d2", "d3"}
    [] s \in {"pair", "condD", "trigger", "throw", "throwD", "same", "nestD",
               "twice"} -> {"d1"}
    [] OTHER -> {}

\* The values the caller writes to a signal: `cond` is a boolean.
ValsOf(s, c) ==
  IF (s \in {"cond", "condD"} /\ c = "c1") \/ s \in Nested THEN {0, 1} ELSE 0..MaxVal

ReactsOf(s) ==
  CASE s \in {"chain", "diamond", "cond", "when", "each", "twice"} \cup NestScenarios ->
         {"r1"}
    [] s \in {"condD", "throwD"} -> {"r2"}
    [] OTHER -> {"r1", "r2"}

Prog(s, id) ==
  CASE s = "chain" /\ id = "d1" -> <<Rd("c1"), Ret("add", 1)>>
    [] s = "chain" /\ id = "d2" -> <<Rd("d1"), Ret("add", 1)>>
    [] s = "chain" /\ id = "d3" -> <<Rd("d2"), Ret("add", 1)>>
    [] s = "chain" /\ id = "r1" -> <<Rd("d3"), Ret("last", 0)>>
    [] s = "diamond" /\ id = "d1" -> <<Rd("c1"), Ret("mul", 2)>>
    [] s = "diamond" /\ id = "d2" -> <<Rd("c1"), Ret("mul", 3)>>
    [] s = "diamond" /\ id = "d3" -> <<Rd("d1"), Rd("d2"), Ret("sum", 0)>>
    [] s = "diamond" /\ id = "r1" -> <<Rd("d3"), Ret("last", 0)>>
    [] s = "pair" /\ id = "d1" -> <<Rd("c1"), Ret("mul", 2)>>
    [] s = "pair" /\ id = "r1" -> <<Rd("c1"), Rd("d1"), Ret("last", 0)>>
    [] s = "pair" /\ id = "r2" -> <<Rd("d1"), Ret("last", 0)>>
    [] (s = "cond" /\ id = "r1") \/ (s = "condD" /\ id = "d1") ->
         <<Rd("c1"), Jz(5), Rd("c2"), Ret("last", 0), Rd("c3"), Ret("last", 0)>>
    [] s = "condD" /\ id = "r2" -> <<Rd("d1"), Ret("last", 0)>>
    [] s = "stop" /\ id = "r1" ->
         <<Rd("c2"), Jz(4), Stop("r1"), Rd("c1"), Ret("last", 0)>>
    [] s = "stop" /\ id = "r2" ->
         <<Rd("c1"), Jz(4), Stop("r1"), Ret("last", 0)>>
    [] s = "trigger" /\ id = "r1" -> <<Rd("c1"), Wr("c2", 2), Ret("last", 0)>>
    [] s = "trigger" /\ id = "d1" -> <<Rd("c2"), Ret("add", 1)>>
    [] s = "trigger" /\ id = "r2" -> <<Rd("d1"), Ret("last", 0)>>
    [] s = "throw" /\ id = "d1" -> <<Rd("c1"), Ret("add", 1)>>
    [] s = "throw" /\ id = "r1" -> <<Rd("c1"), Jz(4), Throw, Ret("last", 0)>>
    [] s = "throw" /\ id = "r2" -> <<Rd("d1"), Ret("last", 0)>>
    [] s = "self" /\ id = "r1" -> <<Rd("c1"), Wr("c1", 2), Ret("last", 0)>>
    [] s = "self" /\ id = "r2" -> <<Rd("c1"), Ret("last", 0)>>
    [] s = "cycle" /\ id = "r1" -> <<Rd("c1"), Wr("c2", 2), Ret("last", 0)>>
    [] s = "cycle" /\ id = "r2" -> <<Rd("c2"), Wr("c1", 2), Ret("last", 0)>>
    [] s = "same" /\ id = "d1" -> <<Rd("c1"), Ret("mul", 0)>>
    [] s = "same" /\ id = "r1" -> <<Rd("d1"), Wr("c1", 1), Ret("last", 0)>>
    [] s = "same" /\ id = "r2" -> <<Rd("d1"), Ret("last", 0)>>
    [] s \in {"when", "whenWhen", "whenEach"} /\ id = "r1" ->
         <<Unm, Rd("c1"), Mk, Ret("last", 0)>>
    [] s = "whenWhen" /\ id = "r2" -> <<Unm, Rd("c1"), Mk, Ret("last", 0)>>
    [] (s = "each" /\ id = "r1") \/ (s = "whenEach" /\ id = "r2") ->
         <<Unm, Rd("c1"), MkAll, Ret("last", 0)>>
    [] s = "twice" /\ id = "d1" -> <<Rd("c1"), Rd("c1"), Ret("sum", 0)>>
    [] s = "twice" /\ id = "r1" -> <<Rd("c1"), Rd("c1"), Rd("d1"), Ret("last", 0)>>
    [] s = "nest" /\ id = "r1" -> <<Rd("c1"), Mke, Rd("c3"), Ret("last", 0)>>
    [] s = "nest" /\ id \in Inners -> <<Rd("c2"), Ret("last", 0)>>
    [] s = "nestD" /\ id = "d1" -> <<Rd("c1"), Ret("add", 1)>>
    [] s = "nestD" /\ id = "r1" -> <<Rd("d1"), Mke, Rd("c3"), Ret("last", 0)>>
    [] s = "nestD" /\ id \in Inners -> <<Rd("c1"), Ret("last", 0)>>
    [] s = "nestS" /\ id = "r1" -> <<Rd("c1"), Mke, Ret("last", 0)>>
    [] s = "nestS" /\ id \in Inners -> <<Rd("c1"), Ret("last", 0)>>
    [] s = "throwD" /\ id = "d1" -> <<Rd("c1"), Jz(4), Throw, Ret("add", 1)>>
    [] s = "throwD" /\ id = "r2" -> <<Rd("d1"), Ret("last", 0)>>
    [] OTHER -> <<Ret("last", 0)>>

Last(q) == IF q = <<>> THEN 0 ELSE q[Len(q)]

RECURSIVE SumOf(_)
SumOf(q) == IF q = <<>> THEN 0 ELSE q[1] + SumOf(Tail(q))

\* The value a function body returns, from the values it has read.
RetVal(ins, regs) ==
  CASE ins.x = "add" -> Last(regs) + ins.n
    [] ins.x = "mul" -> Last(regs) * ins.n
    [] ins.x = "sum" -> SumOf(regs)
    [] OTHER -> Last(regs)

\* What a computed's function yields on a valuation of the signals: the body
\* run to its end, every computed it reads evaluated the same way.
RECURSIVE Exec(_, _, _, _, _)
Exec(s, id, pc, regs, val) ==
  LET ins == Prog(s, id)[pc] IN
  CASE ins.op = "read" ->
         Exec(s, id, pc + 1,
              Append(regs, IF ins.x \in Cells THEN val[ins.x]
                           ELSE Exec(s, ins.x, 1, <<>>, val)), val)
    [] ins.op = "jz" ->
         Exec(s, id, IF Last(regs) = 0 THEN ins.n ELSE pc + 1, regs, val)
    [] ins.op = "ret" -> RetVal(ins, regs)
    [] OTHER -> Undef

\* The signals that evaluation reads, directly or through computeds.
RECURSIVE CellsRead(_, _, _, _, _)
CellsRead(s, id, pc, regs, val) ==
  LET ins == Prog(s, id)[pc] IN
  CASE ins.op = "read" ->
         (IF ins.x \in Cells THEN {ins.x} ELSE CellsRead(s, ins.x, 1, <<>>, val))
         \cup CellsRead(s, id, pc + 1,
                        Append(regs, IF ins.x \in Cells THEN val[ins.x]
                                     ELSE Exec(s, ins.x, 1, <<>>, val)), val)
    [] ins.op = "jz" ->
         CellsRead(s, id, IF Last(regs) = 0 THEN ins.n ELSE pc + 1, regs, val)
    [] OTHER -> {}

\* ------------------------------------------------------------------- state
VARIABLES
  scn,          \* which functions the application defines
  made,         \* made[d]: computed d has been created
  value,        \* value[c]: a signal's `value`
  subs,         \* subs[x]: the `subs` Set of a signal or computed, in insertion order
  dval,         \* dval[d]: a computed's cached `value`
  dirty,        \* dirty[d]: a computed's `dirty`
  running,      \* running[r]: an effect's `running`
  subscribedTo, \* subscribedTo[r]: an effect's `subscribedTo` array
  activeSub,    \* the module's `activeSub`
  activeSets,   \* the module's `activeSets`: the effect whose array it is
  stack,        \* the call stack under the caller's operation
  exc,          \* the caller's last operation ended by an exception
  ret,          \* what the caller's last operation returned
  \* history, read by the properties only
  status,       \* status[r]: none, new (constructing), live, disposing, disposed
  op,           \* the caller's operation in progress, or the last one
  runs,         \* runs[r]: calls of r's function during that operation
  calls,        \* calls[d]: calls of d's function during that operation
  lastReads,    \* lastReads[s]: what s read directly in its most recent run
  recomp,       \* recomp[d]: calls of d's function since a signal it depends on changed
  fresh,        \* fresh[d]: a read of d returned since a signal it depends on changed
  everRead,     \* everRead[d]: d's read handle has been called
  order,        \* order[x]: <<a, b>> when a subscribed to x before b, both subscribed
  late          \* effects whose function ran in an operation begun after their disposal

prog == <<scn, made, value, subs, dval, dirty, running, subscribedTo,
          activeSub, activeSets, stack, exc, ret>>
hist == <<status, op, runs, calls, lastReads, recomp, fresh, everRead, order, late>>

\* list() (lines 443-527): the items signal, the container and the four Maps.
VARIABLES
  items,        \* the array the `items` callback returns (a signal's value)
  children,     \* the container's children, first to last
  keyToEl,      \* key -> element, NoEl when the key is absent
  keyToItem,    \* key -> value of the item signal
  keyToIndex,   \* key -> value of the index signal
  keyToCleanup, \* key -> the cleanup setup returned (named by its element)
  nextEl,       \* the next element cloneNode returns
  listState,    \* none (list() not called), active, stopped
  \* history
  setups,       \* setups[el]: calls of setup for element el
  cleanups,     \* cleanups[el]: calls of the cleanup setup returned for el
  madeFor,      \* madeFor[el]: the key el was cloned for
  stopCalls     \* calls of the handle list() returned

lvars == <<items, children, keyToEl, keyToItem, keyToIndex, keyToCleanup,
           nextEl, listState, setups, cleanups, madeFor, stopCalls>>

\* when() and each() (part_018 lines 483-563): a reactive slot is named by
\* the effect its setup creates; components are numbered as they are created.
VARIABLES
  comps,        \* comps[w]: `currentComponent` of when (0 or 1 entry), `components` of each
  slotUp,       \* slotUp[w]: none, up (mount has set `cleanup`), down (cleanup was called)
  inner,        \* inner[k]: the reactive slot among the children of component k
  nextComp,     \* the next component a render function creates
  \* history
  mounts,       \* mounts[k]: calls of component k's mount
  unmounts,     \* unmounts[k]: calls of component k's unmount
  owner,        \* owner[k]: the slot whose effect created component k
  sawCached     \* sawCached[r]: the computeds whose last read by effect r returned the cache

kvars == <<comps, slotUp, inner, nextComp, mounts, unmounts, owner>>

\* createRouter (part_018 lines 857-896) and the window it listens to.
VARIABLES
  hash,         \* window.location.hash
  readyState,   \* document.readyState: loading, complete
  events,       \* the events queued for dispatch: hashchange, load
  notFound,     \* options.notFound is given
  router,       \* none, on (created, listening), off (destroyed)
  currentPage,  \* `currentPage`: a component, or NoPage for null
  rootHtml,     \* root.innerHTML: the page whose html it is, NoPage, or Page404
  lateEvent     \* history: an event was dispatched after destroy()

rvars == <<hash, readyState, events, notFound, router, currentPage, rootHtml, lateEvent>>

\* $on (naf-html.ts lines 210-236) and the elements it is called on.
VARIABLES
  listeners,    \* <<element, event, handler>>: the listeners attached
  onCall,       \* the last call of $on: its form (3 or 4 arguments) and arguments
  onRet,        \* what it returned
  onThrew       \* it threw

dvars == <<listeners, onCall, onRet, onThrew>>

\* The link-based engine (part_018 lines 963-1342), given the operations the
\* caller gives the Set-based engine.
VARIABLE
  lk            \* its state: the links, the heads and tails of the lists, the call stack

avars == <<kvars, rvars, dvars>>
uvars == <<avars, lk>>
vars == <<prog, hist, lvars, uvars, sawCached>>

\* -------------------------------------------------------------------- list
Keys == {1, 2, 3}
Els == 1..MaxEls
NoEl == 0
NoItem == [key |-> 0, text |-> 0]
NoIndex == -1

\* The `key` callback of the examples: (item) => item.id.
Key(item) == item.key
\* setup's return value: a cleanup, except for key 1 (`void`).
ReturnsCleanup(k) == k # 1

\* Arrays of items with pairwise distinct keys, all of one text version.
Arrays ==
  {[i \in 1..n |-> [key |-> ks[i], text |-> v]] :
     n \in 0..Cardinality(Keys), ks \in [1..Cardinality(Keys) -> Keys], v \in {1, 2}}

DistinctKeys(arr) ==
  \A i, j \in DOMAIN arr : i # j => Key(arr[i]) # Key(arr[j])

NewKeys(arr) == {Key(arr[i]) : i \in DOMAIN arr}

\* DOM: el.remove(), el.previousElementSibling, prevEl.after(el),
\* container.prepend(el) on the sequence of children.
RemoveEl(ch, el) == SelectSeq(ch, LAMBDA e : e # el)

PreviousElementSibling(ch, el) ==
  IF \E i \in DOMAIN ch : i > 1 /\ ch[i] = el
  THEN ch[(CHOOSE i \in DOMAIN ch : i > 1 /\ ch[i] = el) - 1]
  ELSE NoEl

FirstElementChild(ch) == IF ch = <<>> THEN NoEl ELSE ch[1]

After(ch, prevEl, el) ==
  LET c == RemoveEl(ch, el)
      i == CHOOSE j \in DOMAIN c : c[j] = prevEl
  IN SubSeq(c, 1, i) \o <<el>> \o SubSeq(c, i + 1, Len(c))

Prepend(ch, el) == <<el>> \o RemoveEl(ch, el)

ListInit ==
  /\ items = <<>>
  /\ children = <<>>
  /\ keyToEl = [k \in Keys |-> NoEl]
  /\ keyToItem = [k \in Keys |-> NoItem]
  /\ keyToIndex = [k \in Keys |-> NoIndex]
  /\ keyToCleanup = [k \in Keys |-> NoEl]
  /\ nextEl = 1
  /\ listState = "none"
  /\ setups = [e \in Els |-> 0]
  /\ cleanups = [e \in Els |-> 0]
  /\ madeFor = [e \in Els |-> 0]
  /\ stopCalls = 0

\* The list's state as one record, for the loops of the effect.
ListRec ==
  [ch |-> children, el |-> keyToEl, item |-> keyToItem, idx |-> keyToIndex,
   cl |-> keyToCleanup, next |-> nextEl, su |-> setups, cu |-> cleanups,
   mf |-> madeFor]

\* "Remove elements for deleted keys" (lines 465-475).
RemoveDeleted(L, arr) ==
  LET gone == {k \in Keys : L.el[k] # NoEl /\ k \notin NewKeys(arr)}
      goneEls == {L.el[k] : k \in gone}
      called == {L.cl[k] : k \in gone} \ {NoEl}
  IN [L EXCEPT
        !.cu = [e \in Els |-> IF e \in called THEN L.cu[e] + 1 ELSE L.cu[e]],
        !.ch = SelectSeq(L.ch, LAMBDA e : e \notin goneEls),
        !.el = [k \in Keys |-> IF k \in gone THEN NoEl ELSE L.el[k]],
        !.item = [k \in Keys |-> IF k \in gone THEN NoItem ELSE L.item[k]],
        !.idx = [k \in Keys |-> IF k \in gone THEN NoIndex ELSE L.idx[k]],
        !.cl = [k \in Keys |-> IF k \in gone THEN NoEl ELSE L.cl[k]]]

\* A positioning that inserts new elements and never moves one that is
\* already in the container.
PositionNewOnly(ch, prevEl, el) ==
  IF \E i \in DOMAIN ch : ch[i] = el THEN ch
  ELSE IF prevEl # NoEl THEN After(ch, prevEl, el) ELSE Prepend(ch, el)

\* "Position correctly in DOM" (lines 503-513).
Position(ch, prevEl, el) ==
  IF prevEl # NoEl
  THEN IF PreviousElementSibling(ch, el) # prevEl THEN After(ch, prevEl, el) ELSE ch
  ELSE IF el # FirstElementChild(ch) THEN Prepend(ch, el) ELSE ch

\* "Add/reorder/update elements" (lines 478-515), from array index i on;
\* the index signal holds the 0-based position.
RECURSIVE Place(_, _, _, _)
Place(L, arr, i, prevEl) ==
  IF i > Len(arr) THEN L
  ELSE
    LET k == Key(arr[i])
        isNew == L.el[k] = NoEl
        el == IF isNew THEN L.next ELSE L.el[k]
        M == [L EXCEPT
                !.el[k] = el,
                !.item[k] = arr[i],
                !.idx[k] = i - 1,
                !.next = IF isNew THEN @ + 1 ELSE @,
                !.su[el] = IF isNew THEN @ + 1 ELSE @,
                !.mf[el] = IF isNew THEN k ELSE @,
                !.cl[k] = IF isNew /\ ReturnsCleanup(k) THEN el ELSE @,
                !.ch = Position(L.ch, prevEl, el)]
    IN Place(M, arr, i + 1, el)

\* One run of the list's effect on the array arr (lines 461-516).
ListEffect(arr) == Place(RemoveDeleted(ListRec, arr), arr, 1, NoEl)

\* The effect needs no more clones than cloneNode may still return.
CanClone(arr) ==
  Cardinality({k \in NewKeys(arr) : keyToEl[k] = NoEl}) <= MaxEls + 1 - nextEl

SetList(L) ==
  /\ children' = L.ch
  /\ keyToEl' = L.el
  /\ keyToItem' = L.item
  /\ keyToIndex' = L.idx
  /\ keyToCleanup' = L.cl
  /\ nextEl' = L.next
  /\ setups' = L.su
  /\ cleanups' = L.cu
  /\ madeFor' = L.mf

\* list(container, templateEl, items, key, setup): the effect's first run.
List ==
  /\ listState = "none"
  /\ CanClone(items)
  /\ SetList(ListEffect(items))
  /\ listState' = "active"
  /\ UNCHANGED <<items, stopCalls, prog, hist, uvars, sawCached>>

\* The application writes a new array to the items signal: the effect runs
\* unless the list was not made yet or was stopped.
SetItems(arr) ==
  /\ DistinctKeys(arr)
  /\ items' = arr
  /\ IF listState = "active"
     THEN CanClone(arr) /\ SetList(ListEffect(arr))
     ELSE UNCHANGED <<children, keyToEl, keyToItem, keyToIndex, keyToCleanup,
                      nextEl, setups, cleanups, madeFor>>
  /\ UNCHANGED <<listState, stopCalls, prog, hist, uvars, sawCached>>

\* A stop handle that does not clear keyToCleanup.
StopListKeep ==
  /\ listState \in {"active", "stopped"}
  /\ stopCalls < 2
  /\ stopCalls' = stopCalls + 1
  /\ listState' = "stopped"
  /\ cleanups' = [e \in Els |->
                    IF \E k \in Keys : keyToCleanup[k] = e
                    THEN cleanups[e] + 1 ELSE cleanups[e]]
  /\ keyToEl' = [k \in Keys |-> NoEl]
  /\ keyToItem' = [k \in Keys |-> NoItem]
  /\ keyToIndex' = [k \in Keys |-> NoIndex]
  /\ UNCHANGED <<items, children, nextEl, setups, madeFor, keyToCleanup, prog, hist, uvars, sawCached>>

\* The handle list() returns (lines 518-526).
StopList ==
  /\ listState \in {"active", "stopped"}
  /\ stopCalls < 2
  /\ stopCalls' = stopCalls + 1
  /\ listState' = "stopped"
  /\ cleanups' = [e \in Els |->
                    IF \E k \in Keys : keyToCleanup[k] = e
                    THEN cleanups[e] + 1 ELSE cleanups[e]]
  /\ keyToEl' = [k \in Keys |-> NoEl]
  /\ keyToItem' = [k \in Keys |-> NoItem]
  /\ keyToIndex' = [k \in Keys |-> NoIndex]
  /\ keyToCleanup' = [k \in Keys |-> NoEl]
  /\ UNCHANGED <<items, children, nextEl, setups, madeFor, prog, hist, uvars, sawCached>>

\* -------------------------------------------------------------- components
Comps == 1..MaxComps

CompInit ==
  /\ comps = [w \in Reacts |-> <<>>]
  /\ slotUp = [w \in Reacts |-> "none"]
  /\ inner = [k \in Comps |-> None]
  /\ nextComp = 1
  /\ mounts = [k \in Comps |-> 0]
  /\ unmounts = [k \in Comps |-> 0]
  /\ owner = [k \in Comps |-> None]

\* ------------------------------------------------------------------ router
NoPage == 0
Page404 == -1
\* options.routes of the example, and the hashes the window takes.
Routes == {"#/", "#/about"}
Hashes == {"", "#/", "#/about", "#/nowhere"}

\* The state of the window when no router is made.
RouterIdleInit ==
  /\ hash = ""
  /\ readyState = "complete"
  /\ events = <<>>
  /\ notFound = FALSE
  /\ router = "none"
  /\ currentPage = NoPage
  /\ rootHtml = NoPage
  /\ lateEvent = FALSE

RouterInit ==
  /\ hash \in {"", "#/about"}
  /\ readyState \in {"loading", "complete"}
  /\ events = <<>>
  /\ notFound \in BOOLEAN
  /\ router = "none"
  /\ currentPage = NoPage
  /\ rootHtml = NoPage
  /\ lateEvent = FALSE

\* current(): window.location.hash || "#/" (line 861).
Current == IF hash = "" THEN "#/" ELSE hash

\* A handleRoute that does not unmount the page it replaces.
HandleRouteKeep ==
  /\ UNCHANGED unmounts
  /\ IF Current \in Routes \/ notFound
     THEN /\ nextComp \in Comps
          /\ currentPage' = nextComp
          /\ rootHtml' = nextComp
          /\ nextComp' = nextComp + 1
          /\ mounts' = [mounts EXCEPT ![nextComp] = @ + 1]
          /\ owner' = [owner EXCEPT ![nextComp] = "router"]
     ELSE /\ currentPage' = NoPage
          /\ rootHtml' = Page404
          /\ UNCHANGED <<nextComp, mounts, owner>>

\* handleRoute (lines 863-875).
HandleRoute ==
  /\ unmounts' = IF currentPage # NoPage
                 THEN [unmounts EXCEPT ![currentPage] = @ + 1] ELSE unmounts
  /\ IF Current \in Routes \/ notFound
     THEN /\ nextComp \in Comps
          /\ currentPage' = nextComp
          /\ rootHtml' = nextComp
          /\ nextComp' = nextComp + 1
          /\ mounts' = [mounts EXCEPT ![nextComp] = @ + 1]
          /\ owner' = [owner EXCEPT ![nextComp] = "router"]
     ELSE /\ currentPage' = NoPage
          /\ rootHtml' = Page404
          /\ UNCHANGED <<nextComp, mounts, owner>>

RouterIdle == UNCHANGED <<currentPage, rootHtml, nextComp, mounts, unmounts, owner>>

\* createRouter(options) (lines 857-884): the listeners are added, and the
\* route is handled at once when the document is complete.
CreateRouter ==
  /\ router = "none"
  /\ router' = "on"
  /\ IF readyState = "complete" THEN HandleRoute ELSE RouterIdle
  /\ UNCHANGED <<hash, readyState, events, notFound, lateEvent, comps, slotUp, inner,
                 prog, hist, lvars, sawCached, dvars, lk>>

\* The document finishes loading: readyState becomes complete and the load
\* event is queued.
DocumentComplete ==
  /\ readyState = "loading"
  /\ readyState' = "complete"
  /\ events' = Append(events, "load")
  /\ UNCHANGED <<hash, notFound, router, currentPage, rootHtml, lateEvent, kvars,
                 prog, hist, lvars, sawCached, dvars, lk>>

\* navigate(path), a link or the back button: the hash changes and a
\* hashchange event is queued (lines 877-879).
Navigate(h) ==
  /\ h # hash
  /\ Len(events) < MaxEvents
  /\ hash' = h
  /\ events' = Append(events, "hashchange")
  /\ UNCHANGED <<readyState, notFound, router, currentPage, rootHtml, lateEvent, kvars,
                 prog, hist, lvars, sawCached, dvars, lk>>

\* The window dispatches the next event: handleRoute is called if the
\* router's listeners are registered (lines 881-882, 889-890).
Dispatch ==
  /\ events # <<>>
  /\ events' = Tail(events)
  /\ IF router = "on" THEN HandleRoute ELSE RouterIdle
  /\ lateEvent' = (lateEvent \/ router = "off")
  /\ UNCHANGED <<hash, readyState, notFound, router, comps, slotUp, inner,
                 prog, hist, lvars, sawCached, dvars, lk>>

\* destroy() (lines 888-893).
Destroy ==
  /\ router \in {"on", "off"}
  /\ router' = "off"
  /\ unmounts' = IF currentPage # NoPage
                 THEN [unmounts EXCEPT ![currentPage] = @ + 1] ELSE unmounts
  /\ currentPage' = NoPage
  /\ UNCHANGED <<hash, readyState, events, notFound, rootHtml, lateEvent, comps, slotUp,
                 inner, nextComp, mounts, owner, prog, hist, lvars, sawCached, dvars, lk>>

\* --------------------------------------------------------------------- $on
\* A form (element 1) that holds a button (2) and an input (3); 0 is null.
DomEls == {1, 2, 3}
Tag(e) == CASE e = 1 -> "form" [] e = 2 -> "button" [] OTHER -> "input"
Parent(e) == IF e = 1 THEN NoEl ELSE 1
Selectors == {"button", "input", "a"}
EventNames == {"click", "input"}
Handlers == {"h1"}

\* root.querySelector(selector): the first descendant with the tag, or null.
QuerySelector(root, sel) ==
  IF \E e \in DomEls : Parent(e) = root /\ Tag(e) = sel
  THEN CHOOSE e \in DomEls : Parent(e) = root /\ Tag(e) = sel
  ELSE NoEl

DomIdle ==
  /\ listeners = {}
  /\ onCall = [form |-> 0, el |-> NoEl, sel |-> "", ev |-> "", h |-> "", before |-> {}]
  /\ onRet = NoEl
  /\ onThrew = FALSE

\* $on(el, event, handler): typeof handlerOrEvent === "function" (lines
\* 227-231).  A method call on null throws a TypeError.
On3(el, ev, h) ==
  /\ onCall' = [form |-> 3, el |-> el, sel |-> "", ev |-> ev, h |-> h,
                before |-> listeners]
  /\ IF el = NoEl
     THEN /\ onThrew' = TRUE
          /\ UNCHANGED <<listeners, onRet>>
     ELSE /\ onThrew' = FALSE
          /\ listeners' = listeners \cup {<<el, ev, h>>}
          /\ onRet' = el
  /\ UNCHANGED <<kvars, rvars, lk, prog, hist, lvars, sawCached>>

\* $on(root, selector, event, handler) (lines 232-235).
On4(root, sel, ev, h) ==
  /\ onCall' = [form |-> 4, el |-> root, sel |-> sel, ev |-> ev, h |-> h,
                before |-> listeners]
  /\ IF root = NoEl
     THEN /\ onThrew' = TRUE
          /\ UNCHANGED <<listeners, onRet>>
     ELSE /\ onThrew' = FALSE
          /\ listeners' = IF QuerySelector(root, sel) # NoEl
                          THEN listeners \cup {<<QuerySelector(root, sel), ev, h>>}
                          ELSE listeners
          /\ onRet' = QuerySelector(root, sel)
  /\ UNCHANGED <<kvars, rvars, lk, prog, hist, lvars, sawCached>>

\* ----------------------------------------------------------------- helpers
Has(q, e) == \E i \in DOMAIN q : q[i] = e
\* Set.prototype.add / delete on an insertion-ordered Set.
AddSub(q, cb) == IF Has(q, cb) THEN q ELSE Append(q, cb)
DelSub(q, cb) == SelectSeq(q, LAMBDA e : e # cb)

Top == stack[Len(stack)]
Pop == SubSeq(stack, 1, Len(stack) - 1)
Ins == Prog(scn, Top.who)[Top.pc]
Quiet == stack = <<>>

FnFrame(who, pSub, pSets) ==
  [k |-> "fn", who |-> who, pc |-> 1, regs |-> <<>>,
   prevSub |-> pSub, prevSets |-> pSets, list |-> <<>>, i |-> 0]

\* A notify that walks the subscribers from the newest to the oldest.
NotifyFrameReversed(x) ==
  [k |-> "notify", who |-> x, pc |-> 0, regs |-> <<>>,
   prevSub |-> None, prevSets |-> None,
   list |-> [i \in DOMAIN subs[x] |-> subs[x][Len(subs[x]) + 1 - i]], i |-> 1,
   at |-> {subs[x][j] : j \in DOMAIN subs[x]}, inv |-> <<>>]

\* notify(subs): `[...subs]` is the snapshot the forEach walks.  History:
\* `at`, the subscribers when the pass starts, and `inv`, the callbacks the
\* pass has called.
NotifyFrame(x) ==
  [k |-> "notify", who |-> x, pc |-> 0, regs |-> <<>>,
   prevSub |-> None, prevSets |-> None, list |-> subs[x], i |-> 1,
   at |-> {subs[x][j] : j \in DOMAIN subs[x]}, inv |-> <<>>]

\* A track without the `if (activeSub)` test.
TrackSubsAlways(x) == [subs EXCEPT ![x] = AddSub(@, activeSub)]

\* track(subs): subs.add(activeSub); activeSets?.push(subs).
TrackSubs(x) ==
  IF activeSub # None THEN [subs EXCEPT ![x] = AddSub(@, activeSub)] ELSE subs

TrackSets(x) ==
  IF activeSub # None /\ activeSets # None
  THEN [subscribedTo EXCEPT ![activeSets] = Append(@, x)]
  ELSE subscribedTo

\* History of track(subs): a new subscriber comes after the present ones.
TrackOrder(x) ==
  IF activeSub # None /\ ~Has(subs[x], activeSub)
  THEN [order EXCEPT ![x] = @ \cup {<<subs[x][i], activeSub>> : i \in DOMAIN subs[x]}]
  ELSE order

\* History of the unsubscription of r from the Sets it recorded.
UnsubOrder(r) ==
  [x \in Deps |-> IF Has(subscribedTo[r], x)
                  THEN {p \in order[x] : p[1] # r /\ p[2] # r}
                  ELSE order[x]]

\* A forEach that deletes nothing: the effect stays in every Set it joined.
UnsubKeep(r) == subs

\* subscribedTo.forEach((set) => set.delete(run)).
Unsub(r) ==
  [x \in Deps |-> IF Has(subscribedTo[r], x) THEN DelSub(subs[x], r) ELSE subs[x]]

\* The signals computed d's value depends on, on the current values.
DepCells(d) == CellsRead(scn, d, 1, <<>>, value)
Zero(S) == [x \in S |-> 0]
Promote(st) == [r \in Reacts |-> IF st[r] = "disposing" THEN "disposed" ELSE st[r]]
Bump(f, x) == [f EXCEPT ![x] = @ + 1]
BumpCap(f, x) == [f EXCEPT ![x] = IF @ < 2 THEN @ + 1 ELSE @]
\* History of a change of signal c: the computeds that depend on it start over.
Stale(f, c, v) == [d \in Derivs |-> IF made[d] /\ c \in DepCells(d) THEN v ELSE f[d]]

\* -------------------------------------------------- the link-based engine
\* A Link is numbered; NoLink is `undefined`.  A dependency (a signal, or the
\* `dep` of a computed) and a subscriber (an effect's or a computed's `sub`)
\* are named by the signal, computed or effect they belong to.
NoLink == 0

LkInit(on) ==
  [on |-> on,
   value |-> [c \in Cells |-> 0],
   dval |-> [d \in Derivs |-> Undef],
   dirty |-> [d \in Derivs |-> TRUE],
   running |-> [r \in Reacts |-> FALSE],
   activeSub |-> None,
   links |-> <<>>,
   subs |-> [x \in Deps |-> NoLink],
   subsTail |-> [x \in Deps |-> NoLink],
   deps |-> [x \in Callbacks |-> NoLink],
   depsTail |-> [x \in Callbacks |-> NoLink],
   stack |-> <<>>,
   ret |-> Undef,
   status |-> [r \in Reacts |-> "none"],
   runs |-> Zero(Reacts),
   calls |-> Zero(Derivs)]

\* The links the program can still reach: the others are garbage.
LkRoots(L) ==
  ({L.subs[x] : x \in Deps} \cup {L.subsTail[x] : x \in Deps}
   \cup {L.deps[x] : x \in Callbacks} \cup {L.depsTail[x] : x \in Callbacks})
  \ {NoLink}

RECURSIVE LkReach(_, _)
LkReach(L, S) ==
  LET T == (S \cup UNION {{L.links[i].nextDep, L.links[i].prevDep,
                           L.links[i].nextSub, L.links[i].prevSub} : i \in S})
           \ {NoLink}
  IN IF T = S THEN S ELSE LkReach(L, T)

LkCollect(L) ==
  [L EXCEPT !.links = [i \in LkReach(L, LkRoots(L)) |-> L.links[i]]]

\* A link object that is not in use.
NewLink(L) ==
  CHOOSE i \in (1..MaxLinks) \ DOMAIN L.links :
    \A j \in (1..MaxLinks) \ DOMAIN L.links : i <= j

\* link(dep, sub) (lines 1020-1058).
Link(L, dep, sub) ==
  LET currentTail == L.depsTail[sub]
      nextLink == L.links[currentTail].nextDep
      n == NewLink(L)
      depTail == L.subsTail[dep]
      newLink == [dep |-> dep, sub |-> sub, nextDep |-> NoLink, prevDep |-> currentTail,
                  nextSub |-> NoLink, prevSub |-> depTail, gone |-> FALSE]
  IN IF currentTail # NoLink /\ nextLink # NoLink /\ L.links[nextLink].dep = dep
     THEN [L EXCEPT !.depsTail[sub] = nextLink]
     ELSE [L EXCEPT
             !.links = [i \in DOMAIN L.links \cup {n} |->
                          IF i = n THEN newLink
                          ELSE [L.links[i] EXCEPT
                                  !.nextDep = IF i = currentTail THEN n ELSE @,
                                  !.nextSub = IF i = depTail THEN n ELSE @]],
             !.deps[sub] = IF currentTail # NoLink THEN @ ELSE n,
             !.subs[dep] = IF depTail # NoLink THEN @ ELSE n,
             !.subsTail[dep] = n,
             !.depsTail[sub] = n]

\* The getter's `if (activeSub !== undefined) link(dep, activeSub)`.
LkTrack(L, dep) == IF L.activeSub # None THEN Link(L, dep, L.activeSub) ELSE L

\* An unlinking that repairs the list in the forward direction only.
RECURSIVE UnlinkForward(_, _)
UnlinkForward(L, l) ==
  IF l = NoLink THEN L
  ELSE LET k == L.links[l]
           M == [L EXCEPT
                   !.links = [i \in DOMAIN L.links |->
                                [L.links[i] EXCEPT
                                   !.nextSub = IF i = k.prevSub THEN k.nextSub ELSE @,
                                   !.gone = IF i = l THEN TRUE ELSE @]],
                   !.subs[k.dep] = IF k.prevSub = NoLink THEN k.nextSub ELSE @]
       IN UnlinkForward(M, k.nextDep)

\* The loop of cleanup (lines 1318-1342; the same loop in the computed,
\* lines 1221-1244), from link `l` on: each link is taken out of the
\* subscriber list of its dependency.  `gone` is history.
RECURSIVE Unlink(_, _)
Unlink(L, l) ==
  IF l = NoLink THEN L
  ELSE LET k == L.links[l]
           M == [L EXCEPT
                   !.links = [i \in DOMAIN L.links |->
                                [L.links[i] EXCEPT
                                   !.nextSub = IF i = k.prevSub THEN k.nextSub ELSE @,
                                   !.prevSub = IF i = k.nextSub THEN k.prevSub ELSE @,
                                   !.gone = IF i = l THEN TRUE ELSE @]],
                   !.subs[k.dep] = IF k.prevSub = NoLink THEN k.nextSub ELSE @,
                   !.subsTail[k.dep] = IF k.nextSub = NoLink THEN k.prevSub ELSE @]
       IN Unlink(M, k.nextDep)

\* cleanup (lines 1318-1342).
Cleanup(L, sub) ==
  [Unlink(L, L.deps[sub]) EXCEPT !.deps[sub] = NoLink, !.depsTail[sub] = NoLink]

\* The subscribers notify collects (lines 1069-1082): the list is walked
\* from dep.subs by nextSub, each subscriber is taken once.
RECURSIVE Collect(_, _, _, _)
Collect(L, l, acc, fuel) ==
  IF l = NoLink \/ fuel = 0 THEN acc
  ELSE Collect(L, L.links[l].nextSub,
               IF Has(acc, L.links[l].sub) THEN acc ELSE Append(acc, L.links[l].sub),
               fuel - 1)

LkFnFrame(who, pSub) ==
  [k |-> "fn", who |-> who, pc |-> 1, regs |-> <<>>, prevSub |-> pSub,
   list |-> <<>>, i |-> 0]

\* A notify that calls the subscriber of every link, without the `seen` Set.
RECURSIVE CollectAll(_, _, _, _)
CollectAll(L, l, acc, fuel) ==
  IF l = NoLink \/ fuel = 0 THEN acc
  ELSE CollectAll(L, L.links[l].nextSub, Append(acc, L.links[l].sub), fuel - 1)

LkNotifyFrameAll(L, x) ==
  [k |-> "notify", who |-> x, pc |-> 0, regs |-> <<>>, prevSub |-> None,
   list |-> CollectAll(L, L.subs[x], <<>>, MaxLinks + 1), i |-> 1,
   at |-> {L.links[l].sub : l \in {m \in DOMAIN L.links : L.links[m].dep = x}},
   inv |-> <<>>]

\* notify(dep) (lines 1065-1088): `subscribers` is what the for loop walks.
\* History: `at` and `inv` as in the Set-based engine.
LkNotifyFrame(L, x) ==
  [k |-> "notify", who |-> x, pc |-> 0, regs |-> <<>>, prevSub |-> None,
   list |-> Collect(L, L.subs[x], <<>>, MaxLinks + 1), i |-> 1,
   at |-> {L.links[l].sub : l \in {m \in DOMAIN L.links : L.links[m].dep = x}},
   inv |-> <<>>]

LkAdvance(q, v) == [q EXCEPT ![Len(q)].pc = @ + 1, ![Len(q)].regs = Append(@, v)]
LkSkip(q) == [q EXCEPT ![Len(q)].pc = @ + 1]
LkPop(q) == SubSeq(q, 1, Len(q) - 1)

\* run (lines 1348-1364) up to the call of fn.
LkRun(L, r) ==
  IF L.running[r] THEN L
  ELSE LET M == Cleanup([L EXCEPT !.running[r] = TRUE, !.activeSub = r], r)
       IN [M EXCEPT !.stack = Append(@, LkFnFrame(r, L.activeSub)),
                    !.runs[r] = @ + 1]

\* computedFn (lines 1210-1254) up to the call of fn, or to its return of
\* the cached value to the reader.
LkGet(L, d) ==
  LET M == LkTrack(L, d)
  IN IF M.dirty[d]
     THEN LET N == Cleanup([M EXCEPT !.activeSub = d], d)
          IN [N EXCEPT !.stack = Append(@, LkFnFrame(d, M.activeSub)),
                       !.calls[d] = @ + 1]
     ELSE IF M.stack = <<>>
          THEN [M EXCEPT !.ret = M.dval[d]]
          ELSE [M EXCEPT !.stack = LkAdvance(@, M.dval[d])]

\* The effect the next call of effect() inside a function creates.
LkNextInner(L) ==
  InnerSeq[CHOOSE i \in 1..MaxInner :
             /\ L.status[InnerSeq[i]] = "none"
             /\ \A j \in 1..(i - 1) : L.status[InnerSeq[j]] # "none"]

\* One step of the call chain of the link-based engine.
LkStep(L) ==
  LET T == L.stack[Len(L.stack)]
      below == LkPop(L.stack)
      ins == Prog(scn, T.who)[T.pc]
  IN IF T.k = "notify"
     THEN IF T.i > Len(T.list)
          THEN [L EXCEPT !.stack = below]
          ELSE LET cb == T.list[T.i]
                   M == [L EXCEPT !.stack[Len(L.stack)].i = @ + 1,
                                  !.stack[Len(L.stack)].inv = Append(@, cb)]
               IN IF cb \in Reacts
                  THEN LkRun(M, cb)
                  ELSE [M EXCEPT !.dirty[cb] = TRUE,
                                 !.stack = Append(@, LkNotifyFrame(M, cb))]
     ELSE CASE ins.op = "read" /\ ins.x \in Cells ->
                 LET M == LkTrack(L, ins.x)
                 IN [M EXCEPT !.stack = LkAdvance(@, M.value[ins.x])]
            [] ins.op = "read" /\ ins.x \in Derivs -> LkGet(L, ins.x)
            [] ins.op = "jz" ->
                 [L EXCEPT !.stack[Len(L.stack)].pc =
                             IF Last(T.regs) = 0 THEN ins.n ELSE @ + 1]
            [] ins.op = "write" ->
                 LET v == Last(T.regs) * ins.n
                 IN IF L.value[ins.x] # v
                    THEN [L EXCEPT !.value[ins.x] = v,
                                   !.stack = Append(LkSkip(@), LkNotifyFrame(L, ins.x))]
                    ELSE [L EXCEPT !.stack = LkSkip(@)]
            [] ins.op = "dispose" ->
                 LET M == [L EXCEPT !.stack = LkSkip(@)]
                 IN IF L.status[ins.x] \in {"none", "new"} THEN M ELSE Cleanup(M, ins.x)
            [] ins.op = "effect" ->
                 LkRun([L EXCEPT !.stack = LkSkip(@),
                                 !.status[LkNextInner(L)] = "new"], LkNextInner(L))
            [] ins.op = "ret" /\ T.who \in Reacts ->
                 [L EXCEPT !.activeSub = T.prevSub,
                           !.running[T.who] = FALSE,
                           !.stack = below,
                           !.status[T.who] = IF @ = "new" THEN "live" ELSE @]
            [] ins.op = "ret" /\ T.who \in Derivs ->
                 LET v == RetVal(ins, T.regs)
                 IN [L EXCEPT !.dval[T.who] = v,
                              !.activeSub = T.prevSub,
                              !.dirty[T.who] = FALSE,
                              !.stack = IF below = <<>> THEN below ELSE LkAdvance(below, v),
                              !.ret = IF below = <<>> THEN v ELSE @]
            [] OTHER -> L

\* An operation of the caller on the link-based engine: signalFn (lines
\* 1133-1149), computedFn, effect (lines 1305-1374) and the cleanup it returns.
LkBegin(L, kind, x, v) ==
  LET Z == [L EXCEPT !.runs = Zero(Reacts), !.calls = Zero(Derivs)]
  IN CASE kind = "write" ->
            IF Z.value[x] # v
            THEN [Z EXCEPT !.value[x] = v, !.ret = v, !.stack = <<LkNotifyFrame(Z, x)>>]
            ELSE [Z EXCEPT !.ret = v]
       [] kind = "read" -> [LkTrack(Z, x) EXCEPT !.ret = Z.value[x]]
       [] kind = "readD" -> LkGet(Z, x)
       [] kind = "effect" -> LkRun([Z EXCEPT !.status[x] = "new"], x)
       [] kind = "dispose" -> Cleanup(Z, x)
       [] OTHER -> Z

\* The link-based engine is given the operation the caller begins.
Twin(kind, x, v) == IF lk.on THEN LkCollect(LkBegin(lk, kind, x, v)) ELSE lk

\* The call chain of the link-based engine goes on.
LinkStep ==
  /\ stack = <<>>
  /\ lk.stack # <<>>
  /\ lk' = LkCollect(LkStep(lk))
  /\ UNCHANGED <<prog, hist, lvars, avars, sawCached>>

EngineInit(S) ==
  /\ scn \in S
  /\ made = [d \in Derivs |-> FALSE]
  /\ value = [c \in Cells |-> 0]
  /\ subs = [x \in Deps |-> <<>>]
  /\ dval = [d \in Derivs |-> Undef]
  /\ dirty = [d \in Derivs |-> TRUE]
  /\ running = [r \in Reacts |-> FALSE]
  /\ subscribedTo = [r \in Reacts |-> <<>>]
  /\ activeSub = None
  /\ activeSets = None
  /\ stack = <<>>
  /\ exc = FALSE
  /\ ret = Undef
  /\ status = [r \in Reacts |-> "none"]
  /\ op = [kind |-> "init", x |-> None, v |-> 0, changed |-> FALSE,
           pre |-> [s \in Callbacks |-> {}], live |-> {}, sub |-> None,
           again |-> FALSE, cached |-> [s \in Callbacks |-> {}], wasDirty |-> {}]
  /\ runs = Zero(Reacts)
  /\ calls = Zero(Derivs)
  /\ lastReads = [s \in Callbacks |-> {}]
  /\ recomp = Zero(Derivs)
  /\ fresh = [d \in Derivs |-> FALSE]
  /\ everRead = [d \in Derivs |-> FALSE]
  /\ order = [x \in Deps |-> {}]
  /\ late = {}
  /\ sawCached = [s \in Callbacks |-> {}]

InitWith(S) ==
  /\ EngineInit(S)
  /\ ListInit
  /\ CompInit
  /\ RouterIdleInit
  /\ DomIdle
  /\ lk = LkInit(FALSE)

Init == InitWith(Scenarios)

\* What every operation of the caller records when it starts.
Begin(kind, x, v, changed) ==
  /\ Quiet
  /\ lk.stack = <<>>
  /\ lk' = Twin(kind, x, v)
  /\ exc' = FALSE
  /\ op' = [kind |-> kind, x |-> x, v |-> v, changed |-> changed,
            pre |-> lastReads, live |-> {r \in Reacts : status[r] = "live"},
            sub |-> activeSub,
            again |-> kind = "dispose" /\ op.kind = "dispose" /\ op.x = x,
            cached |-> [s \in Callbacks |-> sawCached[s] \cap lastReads[s]],
            wasDirty |-> {d \in Derivs : made[d] /\ dirty[d]}]

\* ------------------------------------------------------- effect: run, stop
\* A run without the `if (running) return` guard.
RunEffectNoGuard(r, stk, rs) ==
  /\ running' = [running EXCEPT ![r] = TRUE]
  /\ subs' = Unsub(r)
  /\ order' = UnsubOrder(r)
  /\ subscribedTo' = [subscribedTo EXCEPT ![r] = <<>>]
  /\ activeSub' = r
  /\ activeSets' = r
  /\ stack' = Append(stk, FnFrame(r, activeSub, activeSets))
  /\ runs' = Bump(rs, r)
  /\ lastReads' = [lastReads EXCEPT ![r] = {}]
  /\ late' = IF status[r] = "disposed" THEN late \cup {r} ELSE late

\* run(): the guard, the unsubscription, the switch of the tracking context
\* and the call of fn (lines 131-142).  `stk` is the caller's stack, `rs` the
\* run counts so far.
RunEffect(r, stk, rs) ==
  IF running[r]
  THEN /\ stack' = stk
       /\ runs' = rs
       /\ UNCHANGED <<running, subs, order, subscribedTo, activeSub, activeSets,
                      lastReads, late>>
  ELSE /\ running' = [running EXCEPT ![r] = TRUE]
       /\ subs' = Unsub(r)
       /\ order' = UnsubOrder(r)
       /\ subscribedTo' = [subscribedTo EXCEPT ![r] = <<>>]
       /\ activeSub' = r
       /\ activeSets' = r
       /\ stack' = Append(stk, FnFrame(r, activeSub, activeSets))
       /\ runs' = Bump(rs, r)
       /\ lastReads' = [lastReads EXCEPT ![r] = {}]
       /\ late' = IF status[r] = "disposed" THEN late \cup {r} ELSE late

\* A disposal that drops the oldest subscriber of every recorded Set and
\* keeps the record.
StopEffectShift(r) ==
  /\ subs' = [x \in Deps |-> IF Has(subscribedTo[r], x) /\ subs[x] # <<>>
                              THEN Tail(subs[x]) ELSE subs[x]]
  /\ order' = UnsubOrder(r)
  /\ UNCHANGED subscribedTo

\* The closure effect() returns (lines 150-153).
StopEffect(r) ==
  /\ subs' = Unsub(r)
  /\ order' = UnsubOrder(r)
  /\ subscribedTo' = [subscribedTo EXCEPT ![r] = <<>>]

\* ------------------------------------------------- the caller's operations
\* A setter that notifies on every call.
ChangedAlways(c, v) == TRUE

\* The setter's test `value !== newValue` (line 73).
Changed(c, v) == value[c] # v

\* A setter that notifies the subscribers without having stored the value.
WriteNoStore(c, v) ==
  /\ Begin("write", c, v, Changed(c, v))
  /\ ret' = v
  /\ IF Changed(c, v)
     THEN /\ stack' = <<NotifyFrame(c)>>
          /\ recomp' = Stale(recomp, c, 0)
          /\ fresh' = Stale(fresh, c, FALSE)
     ELSE UNCHANGED <<stack, recomp, fresh>>
  /\ runs' = Zero(Reacts)
  /\ calls' = Zero(Derivs)
  /\ status' = Promote(status)
  /\ UNCHANGED <<avars, sawCached, lvars, scn, made, value, subs, order, dval, dirty,
                 running, subscribedTo, activeSub, activeSets, lastReads, everRead, late>>

\* signal(v) called with an argument (lines 72-78).
Write(c, v) ==
  /\ Begin("write", c, v, Changed(c, v))
  /\ ret' = v
  /\ IF Changed(c, v)
     THEN /\ value' = [value EXCEPT ![c] = v]
          /\ stack' = <<NotifyFrame(c)>>
          /\ recomp' = Stale(recomp, c, 0)
          /\ fresh' = Stale(fresh, c, FALSE)
     ELSE UNCHANGED <<value, stack, recomp, fresh>>
  /\ runs' = Zero(Reacts)
  /\ calls' = Zero(Derivs)
  /\ status' = Promote(status)
  /\ UNCHANGED <<avars, sawCached, lvars, scn, made, subs, order, dval, dirty, running, subscribedTo,
                 activeSub, activeSets, lastReads, everRead, late>>

\* signal() called without arguments, outside any function (lines 79-80).
ReadSignal(c) ==
  /\ Begin("read", c, 0, FALSE)
  /\ activeSets # None => Len(subscribedTo[activeSets]) < MaxSubscribed
  /\ subs' = TrackSubs(c)
  /\ order' = TrackOrder(c)
  /\ subscribedTo' = TrackSets(c)
  /\ ret' = value[c]
  /\ runs' = Zero(Reacts)
  /\ calls' = Zero(Derivs)
  /\ status' = Promote(status)
  /\ UNCHANGED <<avars, sawCached, lvars, scn, made, value, dval, dirty, running, activeSub, activeSets,
                 stack, lastReads, recomp, fresh, everRead, late>>

\* computed(fn): nothing runs (lines 93-101).
Computed(d) ==
  /\ Begin("computed", d, 0, FALSE)
  /\ ~made[d]
  /\ \A e \in DerivsOf(scn) : Has(Prog(scn, d), Rd(e)) => made[e]
  /\ made' = [made EXCEPT ![d] = TRUE]
  /\ dirty' = [dirty EXCEPT ![d] = TRUE]
  /\ dval' = [dval EXCEPT ![d] = Undef]
  /\ runs' = Zero(Reacts)
  /\ calls' = Zero(Derivs)
  /\ status' = Promote(status)
  /\ UNCHANGED <<avars, sawCached, lvars, scn, value, subs, order, running, subscribedTo, activeSub, activeSets,
                 stack, ret, lastReads, recomp, fresh, everRead, late>>

\* A getter that registers the reader only when it recomputes.
GetComputedTrackDirty(d, below, cs) ==
  /\ subs' = IF dirty[d] THEN TrackSubs(d) ELSE subs
  /\ order' = IF dirty[d] THEN TrackOrder(d) ELSE order
  /\ subscribedTo' = IF dirty[d] THEN TrackSets(d) ELSE subscribedTo
  /\ everRead' = [everRead EXCEPT ![d] = TRUE]
  /\ IF dirty[d]
     THEN /\ activeSub' = d
          /\ stack' = Append(below, FnFrame(d, activeSub, None))
          /\ calls' = Bump(cs, d)
          /\ recomp' = BumpCap(recomp, d)
          /\ UNCHANGED fresh
     ELSE /\ calls' = cs
          /\ fresh' = [fresh EXCEPT ![d] = TRUE]
          /\ UNCHANGED <<activeSub, recomp>>

\* The getter computed() returns, up to the call of fn (lines 104-108):
\* `below` is the stack of the reader.
GetComputed(d, below, cs) ==
  /\ subs' = TrackSubs(d)
  /\ order' = TrackOrder(d)
  /\ subscribedTo' = TrackSets(d)
  /\ everRead' = [everRead EXCEPT ![d] = TRUE]
  /\ IF dirty[d]
     THEN /\ activeSub' = d
          /\ stack' = Append(below, FnFrame(d, activeSub, None))
          /\ calls' = Bump(cs, d)
          /\ recomp' = BumpCap(recomp, d)
          /\ UNCHANGED fresh
     ELSE /\ calls' = cs
          /\ fresh' = [fresh EXCEPT ![d] = TRUE]
          /\ UNCHANGED <<activeSub, recomp>>

\* A read of a computed outside any function.
ReadComputed(d) ==
  /\ Begin("readD", d, 0, FALSE)
  /\ made[d]
  /\ activeSets # None => Len(subscribedTo[activeSets]) < MaxSubscribed
  /\ GetComputed(d, <<>>, Zero(Derivs))
  /\ IF dirty[d]
     THEN /\ lastReads' = [lastReads EXCEPT ![d] = {}]
          /\ UNCHANGED ret
     ELSE /\ ret' = dval[d]
          /\ UNCHANGED <<stack, lastReads>>
  /\ runs' = Zero(Reacts)
  /\ status' = Promote(status)
  /\ UNCHANGED <<avars, sawCached, lvars, scn, made, value, dval, dirty, running, activeSets, late>>

\* effect(fn): the first run (line 148).
Effect(r) ==
  /\ Begin("effect", r, 0, FALSE)
  /\ status[r] = "none"
  /\ \A d \in DerivsOf(scn) : made[d]
  /\ RunEffect(r, <<>>, Zero(Reacts))
  /\ calls' = Zero(Derivs)
  /\ status' = [Promote(status) EXCEPT ![r] = "new"]
  /\ UNCHANGED <<avars, sawCached, lvars, scn, made, value, dval, dirty, ret, recomp, fresh, everRead>>

\* The disposal handle called outside any function.
Dispose(r) ==
  /\ Begin("dispose", r, 0, FALSE)
  /\ status[r] \in {"live", "disposing", "disposed"}
  /\ StopEffect(r)
  /\ status' = [Promote(status) EXCEPT ![r] = "disposed"]
  /\ runs' = Zero(Reacts)
  /\ calls' = Zero(Derivs)
  /\ UNCHANGED <<avars, sawCached, lvars, scn, made, value, dval, dirty, running, activeSub, activeSets,
                 stack, ret, lastReads, recomp, fresh, everRead, late>>

\* ------------------------------------------------ steps of the call chain
InFn == ~Quiet /\ Top.k = "fn"
InNotify == ~Quiet /\ Top.k = "notify"
\* The top frame after its current instruction: the value read is appended.
Advance(q, v) == [q EXCEPT ![Len(q)].pc = @ + 1, ![Len(q)].regs = Append(@, v)]
Skip(q) == [q EXCEPT ![Len(q)].pc = @ + 1]

\* A markDirty that recomputes at once instead of waiting for a read.
MarkDirtyEager(d, stk) ==
  /\ dirty' = [dirty EXCEPT ![d] = TRUE]
  /\ stack' = Append(stk, FnFrame(d, activeSub, None))
  /\ activeSub' = d
  /\ UNCHANGED <<running, subs, order, subscribedTo, activeSets, runs,
                 lastReads, late, dval, calls, recomp>>

\* A markDirty that does not forward the notification.
MarkDirtyOnly(d, stk) ==
  /\ dirty' = [dirty EXCEPT ![d] = TRUE]
  /\ stack' = stk
  /\ UNCHANGED <<running, subs, order, subscribedTo, activeSub, activeSets, runs,
                 lastReads, late, dval, calls, recomp>>

\* A markDirty that forwards only the notification that makes it dirty.
MarkDirtyIfClean(d, stk) ==
  /\ dirty' = [dirty EXCEPT ![d] = TRUE]
  /\ stack' = IF dirty[d] THEN stk ELSE Append(stk, NotifyFrame(d))
  /\ UNCHANGED <<running, subs, order, subscribedTo, activeSub, activeSets, runs,
                 lastReads, late, dval, calls, recomp>>

\* markDirty (lines 98-101): dirty = true; notify(subs).  Nothing is computed.
MarkDirty(d, stk) ==
  /\ dirty' = [dirty EXCEPT ![d] = TRUE]
  /\ stack' = Append(stk, NotifyFrame(d))
  /\ UNCHANGED <<running, subs, order, subscribedTo, activeSub, activeSets, runs,
                 lastReads, late, dval, calls, recomp>>

\* One turn of notify's forEach over the snapshot (line 55): the next
\* callback is called, an effect's run or a computed's markDirty.
NotifyStep ==
  /\ InNotify
  /\ Top.i <= Len(Top.list)
  /\ LET cb == Top.list[Top.i]
         stk == [stack EXCEPT ![Len(stack)].i = @ + 1,
                              ![Len(stack)].inv = Append(@, cb)]
     IN IF cb \in Reacts
        THEN RunEffect(cb, stk, runs) /\ UNCHANGED <<dirty, dval, calls, recomp>>
        ELSE MarkDirty(cb, stk)
  /\ UNCHANGED <<uvars, sawCached, lvars, scn, made, value, exc, ret, status, op, fresh, everRead>>

\* The forEach is over: notify returns to the setter or to markDirty.
NotifyDone ==
  /\ InNotify
  /\ Top.i > Len(Top.list)
  /\ stack' = Pop
  /\ UNCHANGED <<uvars, sawCached, lvars, scn, made, value, subs, dval, dirty, running, subscribedTo,
                 activeSub, activeSets, exc, ret, hist>>

\* A function reads a signal (lines 79-80).
FnReadSignal ==
  /\ InFn
  /\ Ins.op = "read"
  /\ Ins.x \in Cells
  /\ subs' = TrackSubs(Ins.x)
  /\ order' = TrackOrder(Ins.x)
  /\ subscribedTo' = TrackSets(Ins.x)
  /\ stack' = Advance(stack, value[Ins.x])
  /\ lastReads' = [lastReads EXCEPT ![Top.who] = @ \cup {Ins.x}]
  /\ UNCHANGED <<uvars, sawCached, lvars, scn, made, value, dval, dirty, running, activeSub, activeSets,
                 exc, ret, status, op, runs, calls, recomp, fresh, everRead, late>>

\* A function reads a computed (lines 103-113): the cached value, or the
\* call of the computed's function.
FnReadComputed ==
  /\ InFn
  /\ Ins.op = "read"
  /\ Ins.x \in Derivs
  /\ GetComputed(Ins.x, stack, calls)
  /\ IF dirty[Ins.x]
     THEN /\ lastReads' = [lastReads EXCEPT ![Top.who] = @ \cup {Ins.x}, ![Ins.x] = {}]
          /\ sawCached' = [sawCached EXCEPT ![Top.who] = @ \ {Ins.x}]
     ELSE /\ stack' = Advance(stack, dval[Ins.x])
          /\ lastReads' = [lastReads EXCEPT ![Top.who] = @ \cup {Ins.x}]
          /\ sawCached' = IF Top.who \in Reacts
                          THEN [sawCached EXCEPT ![Top.who] = @ \cup {Ins.x}]
                          ELSE sawCached
  /\ UNCHANGED <<uvars, lvars, scn, made, value, dval, dirty, running, activeSets, exc, ret,
                 status, op, runs, late>>

\* An `if` on the value read last.
FnBranch ==
  /\ InFn
  /\ Ins.op = "jz"
  /\ stack' = [stack EXCEPT ![Len(stack)].pc = IF Last(Top.regs) = 0 THEN Ins.n ELSE @ + 1]
  /\ UNCHANGED <<uvars, sawCached, lvars, scn, made, value, subs, dval, dirty, running, subscribedTo,
                 activeSub, activeSets, exc, ret, hist>>

\* A function writes a signal (lines 72-78): n times the value read last.
FnWrite ==
  /\ InFn
  /\ Ins.op = "write"
  /\ LET v == Last(Top.regs) * Ins.n
     IN IF Changed(Ins.x, v)
        THEN /\ value' = [value EXCEPT ![Ins.x] = v]
             /\ stack' = Append(Skip(stack), NotifyFrame(Ins.x))
             /\ recomp' = Stale(recomp, Ins.x, 0)
             /\ fresh' = Stale(fresh, Ins.x, FALSE)
        ELSE /\ stack' = Skip(stack)
             /\ UNCHANGED <<value, recomp, fresh>>
  /\ UNCHANGED <<uvars, sawCached, lvars, scn, made, subs, order, dval, dirty, running, subscribedTo, activeSub,
                 activeSets, exc, ret, status, op, runs, calls, lastReads,
                 everRead, late>>

\* A function calls an effect's disposal handle, if it has been returned.
FnDispose ==
  /\ InFn
  /\ Ins.op = "dispose"
  /\ stack' = Skip(stack)
  /\ IF status[Ins.x] \in {"none", "new"}
     THEN UNCHANGED <<subs, order, subscribedTo, status>>
     ELSE /\ StopEffect(Ins.x)
          /\ status' = [status EXCEPT ![Ins.x] = IF @ = "live" THEN "disposing" ELSE @]
  /\ UNCHANGED <<uvars, sawCached, lvars, scn, made, value, dval, dirty, running, activeSub, activeSets,
                 exc, ret, op, runs, calls, lastReads, recomp, fresh, everRead, late>>

\* The effect the next call of effect() inside a function creates.
FreeInner == {i \in 1..MaxInner : status[InnerSeq[i]] = "none"}
NextInner == InnerSeq[CHOOSE i \in FreeInner : \A j \in FreeInner : i <= j]

\* An effect() that first disposes the effects created by earlier runs.
FnEffectOwned ==
  /\ InFn
  /\ Ins.op = "effect"
  /\ FreeInner # {}
  /\ running' = [running EXCEPT ![NextInner] = TRUE]
  /\ subs' = [x \in Deps |-> SelectSeq(subs[x], LAMBDA e : e \notin Inners)]
  /\ order' = [x \in Deps |-> {q \in order[x] : q[1] \notin Inners /\ q[2] \notin Inners}]
  /\ subscribedTo' = [r \in Reacts |-> IF r \in Inners THEN <<>> ELSE subscribedTo[r]]
  /\ activeSub' = NextInner
  /\ activeSets' = NextInner
  /\ stack' = Append(Skip(stack), FnFrame(NextInner, activeSub, activeSets))
  /\ runs' = Bump(runs, NextInner)
  /\ lastReads' = [lastReads EXCEPT ![NextInner] = {}]
  /\ status' = [status EXCEPT ![NextInner] = "new"]
  /\ UNCHANGED <<uvars, sawCached, lvars, scn, made, value, dval, dirty, exc, ret, op,
                 calls, recomp, fresh, everRead, late>>

\* A function calls effect(fn) (lines 127-148): the new effect runs at once,
\* under the caller's tracking context, which its run saves.
FnEffect ==
  /\ InFn
  /\ Ins.op = "effect"
  /\ FreeInner # {}
  /\ RunEffect(NextInner, Skip(stack), runs)
  /\ status' = [status EXCEPT ![NextInner] = "new"]
  /\ UNCHANGED <<uvars, sawCached, lvars, scn, made, value, dval, dirty, exc, ret, op,
                 calls, recomp, fresh, everRead>>

\* A run that leaves the tracking context as its function left it.
EffectReturnNoRestore ==
  /\ InFn
  /\ Ins.op = "ret"
  /\ Top.who \in Reacts
  /\ activeSub' = IF Len(stack) = 1 THEN Top.prevSub ELSE activeSub
  /\ activeSets' = IF Len(stack) = 1 THEN Top.prevSets ELSE activeSets
  /\ running' = [running EXCEPT ![Top.who] = FALSE]
  /\ stack' = Pop
  /\ status' = [status EXCEPT ![Top.who] = IF @ = "new" THEN "live" ELSE @]
  /\ sawCached' = [sawCached EXCEPT ![Top.who] = @ \cap lastReads[Top.who]]
  /\ UNCHANGED <<uvars, lvars, scn, made, value, subs, order, dval, dirty, subscribedTo, exc, ret,
                 op, runs, calls, lastReads, recomp, fresh, everRead, late>>

\* An effect's function returns: lines 143-145.
EffectReturn ==
  /\ InFn
  /\ Ins.op = "ret"
  /\ Top.who \in Reacts
  /\ activeSub' = Top.prevSub
  /\ activeSets' = Top.prevSets
  /\ running' = [running EXCEPT ![Top.who] = FALSE]
  /\ stack' = Pop
  /\ status' = [status EXCEPT ![Top.who] = IF @ = "new" THEN "live" ELSE @]
  /\ sawCached' = [sawCached EXCEPT ![Top.who] = @ \cap lastReads[Top.who]]
  /\ UNCHANGED <<uvars, lvars, scn, made, value, subs, order, dval, dirty, subscribedTo, exc, ret,
                 op, runs, calls, lastReads, recomp, fresh, everRead, late>>

\* A computed's function returns: lines 108-112, and the getter's value goes
\* to the reader (the function below, or the caller).
ComputedReturn ==
  /\ InFn
  /\ Ins.op = "ret"
  /\ Top.who \in Derivs
  /\ LET v == RetVal(Ins, Top.regs)
     IN /\ dval' = [dval EXCEPT ![Top.who] = v]
        /\ IF Len(stack) = 1
           THEN stack' = <<>> /\ ret' = v
           ELSE stack' = Advance(Pop, v) /\ UNCHANGED ret
  /\ activeSub' = Top.prevSub
  /\ dirty' = [dirty EXCEPT ![Top.who] = FALSE]
  /\ fresh' = [fresh EXCEPT ![Top.who] = TRUE]
  /\ UNCHANGED <<uvars, sawCached, lvars, scn, made, value, subs, order, running, subscribedTo, activeSets, exc,
                 status, op, runs, calls, lastReads, recomp, everRead, late>>

\* A function throws: nothing on the call chain catches, and no frame has a
\* finally block, so the exception reaches the caller with the state as it is.
FnThrow ==
  /\ InFn
  /\ Ins.op = "throw"
  /\ stack' = <<>>
  /\ exc' = TRUE
  /\ UNCHANGED <<uvars, sawCached, lvars, scn, made, value, subs, dval, dirty, running, subscribedTo,
                 activeSub, activeSets, ret, hist>>

\* ---------------------------------------------------------- when and each
\* The application: whether when() was given `otherwise`, and the reactive
\* slot in the template of the component `then` returns.
HasOtherwise(s, w) == s = "when" \/ (s = "whenWhen" /\ w = "r2")
InnerOf(s, w) == IF s \in Nested /\ w = "r1" THEN "r2" ELSE None

\* The slot whose cleanup the unmount of the components ks calls
\* (createComponent.unmount, lines 294-297; reactiveSlot.unmount, 385-387).
InnerSlot(ks) ==
  IF \E i \in DOMAIN ks : inner[ks[i]] # None /\ slotUp[inner[ks[i]]] # "none"
  THEN inner[ks[CHOOSE i \in DOMAIN ks :
                  inner[ks[i]] # None /\ slotUp[inner[ks[i]]] # "none"]]
  ELSE None

\* unmount() of each component of ks: the cleanup of a slot among its
\* children stops the slot's effect and unmounts what the slot holds (lines
\* 503-506, 557-560), then onUnmount is called.
UnmountComps(ks) ==
  LET v == InnerSlot(ks)
      held == IF v = None THEN <<>> ELSE comps[v]
  IN /\ unmounts' = [k \in Comps |->
                       unmounts[k] + (IF Has(ks, k) THEN 1 ELSE 0)
                                   + (IF Has(held, k) THEN 1 ELSE 0)]
     /\ IF v = None
        THEN UNCHANGED <<subs, order, subscribedTo, status, slotUp>>
        ELSE /\ StopEffect(v)
             /\ status' = [status EXCEPT ![v] = IF @ = "live" THEN "disposing" ELSE @]
             /\ slotUp' = [slotUp EXCEPT ![v] = "down"]

\* when: `currentComponent?.unmount?.()` (line 495); each:
\* `components.forEach((c) => c.unmount?.()); components = []` (541-542).
FnUnmount ==
  /\ InFn
  /\ Ins.op = "unmount"
  /\ UnmountComps(comps[Top.who])
  /\ comps' = IF Has(Prog(scn, Top.who), MkAll)
              THEN [comps EXCEPT ![Top.who] = <<>>] ELSE comps
  /\ stack' = Skip(stack)
  /\ UNCHANGED <<inner, nextComp, mounts, owner, rvars, dvars, lk, sawCached, lvars, scn, made, value,
                 dval, dirty, running, activeSub, activeSets, exc, ret, op, runs,
                 calls, lastReads, recomp, fresh, everRead, late>>

\* when: the component of the branch is created, put between the markers and
\* mounted (lines 497-501); the mount of a component mounts its children
\* first, and the mount of a reactive slot creates the slot's effect (line
\* 382), whose first run starts here.
FnRender ==
  /\ InFn
  /\ Ins.op = "render"
  /\ LET w == Top.who
         v == Last(Top.regs)
         k == nextComp
     IN IF v # 0 \/ HasOtherwise(scn, w)
        THEN /\ k \in Comps
             /\ comps' = [comps EXCEPT ![w] = <<k>>]
             /\ nextComp' = k + 1
             /\ owner' = [owner EXCEPT ![k] = w]
             /\ mounts' = [mounts EXCEPT ![k] = @ + 1]
             /\ IF v # 0 /\ InnerOf(scn, w) # None
                THEN /\ status[InnerOf(scn, w)] = "none"
                     /\ inner' = [inner EXCEPT ![k] = InnerOf(scn, w)]
                     /\ slotUp' = [slotUp EXCEPT ![InnerOf(scn, w)] = "up"]
                     /\ status' = [status EXCEPT ![InnerOf(scn, w)] = "new"]
                     /\ RunEffect(InnerOf(scn, w), Skip(stack), runs)
                ELSE /\ stack' = Skip(stack)
                     /\ UNCHANGED <<inner, slotUp, status, running, subs, order,
                                    subscribedTo, activeSub, activeSets, runs,
                                    lastReads, late>>
        ELSE /\ comps' = [comps EXCEPT ![w] = <<>>]
             /\ stack' = Skip(stack)
             /\ UNCHANGED <<nextComp, owner, mounts, inner, slotUp, status, running,
                            subs, order, subscribedTo, activeSub, activeSets, runs,
                            lastReads, late>>
  /\ UNCHANGED <<unmounts, rvars, dvars, lk, sawCached, lvars, scn, made, value, dval, dirty, exc, ret,
                 op, calls, recomp, fresh, everRead>>

\* each: one component per item is rendered, the HTML is put between the
\* markers and every component is mounted (lines 544-554).  The array is
\* modelled by its length.
FnRenderAll ==
  /\ InFn
  /\ Ins.op = "renderAll"
  /\ LET w == Top.who
         n == Last(Top.regs)
         new == [i \in 1..n |-> nextComp + i - 1]
     IN /\ nextComp + n <= MaxComps + 1
        /\ comps' = [comps EXCEPT ![w] = new]
        /\ nextComp' = nextComp + n
        /\ owner' = [k \in Comps |-> IF Has(new, k) THEN w ELSE owner[k]]
        /\ mounts' = [k \in Comps |-> IF Has(new, k) THEN mounts[k] + 1 ELSE mounts[k]]
  /\ stack' = Skip(stack)
  /\ UNCHANGED <<inner, slotUp, unmounts, rvars, dvars, lk, sawCached, lvars, scn, made, value, subs,
                 order, dval, dirty, running, subscribedTo, activeSub, activeSets,
                 exc, ret, status, op, runs, calls, lastReads, recomp, fresh,
                 everRead, late>>

\* The caller mounts the component when()/each() returned: reactiveSlot's
\* mount calls setupEffect, which creates the effect (lines 360-383, 494).
MountSlot(w) ==
  /\ Begin("mount", w, 0, FALSE)
  /\ status[w] = "none"
  /\ InnerOf(scn, "r1") # w
  /\ RunEffect(w, <<>>, Zero(Reacts))
  /\ slotUp' = [slotUp EXCEPT ![w] = "up"]
  /\ calls' = Zero(Derivs)
  /\ status' = [Promote(status) EXCEPT ![w] = "new"]
  /\ UNCHANGED <<comps, inner, nextComp, mounts, unmounts, owner, rvars, dvars, sawCached, lvars,
                 scn, made, value, dval, dirty, ret, recomp, fresh, everRead>>

\* The caller unmounts it: cleanup is `stopEffect()` and the unmount of what
\* the slot holds (lines 503-506, 557-560).
UnmountSlot(w) ==
  /\ Begin("unmount", w, 0, FALSE)
  /\ slotUp[w] = "up"
  /\ status[w] = "live"
  /\ InnerOf(scn, "r1") # w
  /\ LET v == InnerSlot(comps[w])
         held == IF v = None THEN <<>> ELSE comps[v]
         gone == {w} \cup (IF v = None THEN {} ELSE {v})
     IN /\ unmounts' = [k \in Comps |->
                          unmounts[k] + (IF Has(comps[w], k) THEN 1 ELSE 0)
                                      + (IF Has(held, k) THEN 1 ELSE 0)]
        /\ subs' = [x \in Deps |-> SelectSeq(subs[x], LAMBDA e : e \notin gone)]
        /\ order' = [x \in Deps |->
                       {q \in order[x] : q[1] \notin gone /\ q[2] \notin gone}]
        /\ subscribedTo' = [r \in Reacts |-> IF r \in gone THEN <<>> ELSE subscribedTo[r]]
        /\ status' = [r \in Reacts |->
                        IF r \in gone /\ status[r] \in {"live", "disposing"}
                        THEN "disposed" ELSE Promote(status)[r]]
        /\ slotUp' = [r \in Reacts |-> IF r \in gone THEN "down" ELSE slotUp[r]]
  /\ runs' = Zero(Reacts)
  /\ calls' = Zero(Derivs)
  /\ UNCHANGED <<comps, inner, nextComp, mounts, owner, rvars, dvars, sawCached, lvars, scn, made,
                 value, dval, dirty, running, activeSub, activeSets, stack, ret,
                 lastReads, recomp, fresh, everRead, late>>

\* A write by the application, as long as the render functions it may call
\* have components left to create and the `then` of the outer when has not
\* yet created its inner slot a first time.
CanRender(v) ==
  /\ nextComp + (IF scn = "each" THEN v ELSE IF scn \in Nested /\ v # 0 THEN 3 ELSE 1)
       <= MaxComps + 1
  /\ (scn \in Nested /\ v # 0 /\ Has(subs["c1"], "r1")) => status["r2"] = "none"

\* ----------------------------------------------------------- specification
Caller ==
  \/ \E c \in CellsOf(scn) : \E v \in ValsOf(scn, c) : Write(c, v)
  \/ \E c \in CellsOf(scn) : ReadSignal(c)
  \/ \E d \in DerivsOf(scn) : Computed(d)
  \/ \E d \in DerivsOf(scn) : ReadComputed(d)
  \/ \E r \in ReactsOf(scn) : Effect(r)
  \/ \E r \in ReactsOf(scn) : Dispose(r)

Next ==
  \/ Caller
  \/ NotifyStep
  \/ NotifyDone
  \/ FnReadSignal
  \/ FnReadComputed
  \/ FnBranch
  \/ FnWrite
  \/ FnDispose
  \/ EffectReturn
  \/ ComputedReturn

Spec == Init /\ [][Next]_vars

\* A call chain runs to its end without interruption: JavaScript is
\* single-threaded and every handler is synchronous.
Step ==
  \/ NotifyStep
  \/ NotifyDone
  \/ FnReadSignal
  \/ FnReadComputed
  \/ FnBranch
  \/ FnWrite
  \/ FnDispose
  \/ EffectReturn
  \/ ComputedReturn

InitLive == InitWith({"self", "cycle", "trigger", "same", "stop"})
SpecLive == InitLive /\ [][Next]_vars /\ WF_vars(Step)

\* The same program with functions that may throw.
InitThrow == InitWith(Scenarios \cup ThrowScenarios)
\* Unbounded recursion ends in a RangeError, which nothing catches either.
Overflow ==
  /\ Len(stack) >= MaxDepth
  /\ stack' = <<>>
  /\ exc' = TRUE
  /\ UNCHANGED <<uvars, sawCached, lvars, scn, made, value, subs, dval, dirty, running, subscribedTo,
                 activeSub, activeSets, ret, hist>>

NextThrow ==
  \/ Len(stack) < MaxDepth /\ Next
  \/ FnThrow
  \/ Overflow
SpecThrow == InitThrow /\ [][NextThrow]_vars

\* Effects created inside effects, beside effects created by the caller.
InitNest == InitWith(NestScenarios \cup {"pair", "cond", "stop", "trigger"})

\* The outer effect can create the effect its next run asks for.
CanCreate(c) ==
  (scn \in NestScenarios /\ c = "c1") => FreeInner # {}

NextNest ==
  \/ \E c \in CellsOf(scn) : \E v \in ValsOf(scn, c) : CanCreate(c) /\ Write(c, v)
  \/ \E c \in CellsOf(scn) : ReadSignal(c)
  \/ \E d \in DerivsOf(scn) : Computed(d)
  \/ \E d \in DerivsOf(scn) : ReadComputed(d)
  \/ \E r \in ReactsOf(scn) : Effect(r)
  \/ \E r \in ReactsOf(scn) : Dispose(r)
  \/ NotifyStep
  \/ NotifyDone
  \/ FnReadSignal
  \/ FnReadComputed
  \/ FnBranch
  \/ FnWrite
  \/ FnDispose
  \/ FnEffect
  \/ EffectReturn
  \/ ComputedReturn

SpecNest == InitNest /\ [][NextNest]_vars

\* The two engines under the same application and the same caller.
BothScenarios == {"twice", "condD", "cond", "pair", "stop", "self", "cycle", "nestS"}

InitBoth ==
  /\ EngineInit(BothScenarios)
  /\ ListInit
  /\ CompInit
  /\ RouterIdleInit
  /\ DomIdle
  /\ lk = LkInit(TRUE)

NextBoth ==
  \/ NextNest
  \/ LinkStep

SpecBoth == InitBoth /\ [][NextBoth]_vars

\* when() and each() on the engine: the application mounts the slot, writes
\* the signal its condition or items read, and unmounts the slot.
InitComp == InitWith(CompScenarios)

NextComp ==
  \/ \E w \in ReactsOf(scn) : MountSlot(w)
  \/ \E w \in ReactsOf(scn) : UnmountSlot(w)
  \/ \E v \in ValsOf(scn, "c1") : CanRender(v) /\ Write("c1", v)
  \/ NotifyStep
  \/ NotifyDone
  \/ FnReadSignal
  \/ FnUnmount
  \/ FnRender
  \/ FnRenderAll
  \/ EffectReturn

SpecComp == InitComp /\ [][NextComp]_vars

\* The router on its own: the engine is idle.
InitRouter ==
  /\ EngineInit({"router"})
  /\ ListInit
  /\ CompInit
  /\ RouterInit
  /\ DomIdle
  /\ lk = LkInit(FALSE)

NextRouter ==
  \/ CreateRouter
  \/ DocumentComplete
  \/ \E h \in Hashes : Navigate(h)
  \/ Dispatch
  \/ Destroy

SpecRouter == InitRouter /\ [][NextRouter]_vars

\* $on on its own.
InitDom == InitWith({"dom"})

NextDom ==
  \/ \E el \in DomEls \cup {NoEl} : \E ev \in EventNames : \E h \in Handlers :
       On3(el, ev, h)
  \/ \E root \in DomEls \cup {NoEl} : \E sel \in Selectors :
       \E ev \in EventNames : \E h \in Handlers : On4(root, sel, ev, h)

SpecDom == InitDom /\ [][NextDom]_vars

\* list() on its own: the engine is idle, the application updates the items.
InitList == InitWith({"list"})

NextList ==
  \/ List
  \/ \E arr \in Arrays : SetItems(arr)
  \/ StopList

SpecList == InitList /\ [][NextList]_vars

\* ------------------------------------------------------------- properties
\* s read signal c in its most recent run, directly or through computeds,
\* by the reads recorded in rd.
RECURSIVE ReadsCell(_, _, _)
ReadsCell(s, c, rd) ==
  \/ c \in rd[s]
  \/ \E d \in rd[s] \cap Derivs : ReadsCell(d, c, rd)

\* The caller's write of a different value has returned.
WriteReturned == Quiet /\ ~exc /\ op.kind = "write" /\ op.changed

\* C1: after a write of a different value, every effect that read the signal
\* in its last run (directly, through a chain or a diamond of computeds, or
\* both directly and through a computed) has re-run exactly once when the
\* write returns.
C1_RerunExactlyOnce ==
  WriteReturned =>
    \A r \in op.live : ReadsCell(r, op.x, op.pre) => runs[r] = 1

\* C2: every run of an effect that reads a signal and then a computed of that
\* signal sees a consistent pair (the computed's value is its function of the
\* signal's value read), and a write of a different value makes it run once.
C2_ConsistentPair ==
  /\ \A i \in DOMAIN stack :
       LET f == stack[i]
           p == Prog(scn, f.who)
       IN (/\ f.k = "fn" /\ f.who \in Reacts /\ Len(f.regs) >= 2
           /\ p[1].op = "read" /\ p[1].x \in Cells
           /\ p[2].op = "read" /\ p[2].x \in Derivs
           /\ CellsRead(scn, p[2].x, 1, <<>>, value) = {p[1].x})
          => f.regs[2] = Exec(scn, p[2].x, 1, <<>>,
                              [value EXCEPT ![p[1].x] = f.regs[1]])
  /\ (WriteReturned /\ scn = "pair" /\ "r1" \in op.live) => runs["r1"] = 1

\* C3: once an effect's disposal handle has been called, no later write
\* invokes the effect's function again.
C3_NoRunAfterDispose == late = {}

Computing(d) == \E i \in DOMAIN stack : stack[i].k = "fn" /\ stack[i].who = d
SubscribedTo(s) == {x \in Deps : Has(subs[x], s)}

\* C5: after a recomputation a computed is subscribed to exactly what its
\* function read in that recomputation.
C5_LinksRebuilt ==
  \A d \in Derivs :
    (made[d] /\ dval[d] # Undef /\ ~Computing(d)) => SubscribedTo(d) = lastReads[d]

\* C7: between two reads of a computed with no change to a signal it depends
\* on, its function is not called again; after such a change the next read
\* calls it exactly once.
C7_Cached ==
  \A d \in Derivs : recomp[d] <= 1 /\ (fresh[d] => recomp[d] = 1)

\* C10: when an effect's function throws, the exception reaches the caller
\* with the tracking context restored and the running flag cleared.
C10_ThrowRestores ==
  (Quiet /\ exc) =>
    /\ activeSub = None
    /\ activeSets = None
    /\ \A r \in Reacts : ~running[r]

\* C11: when a computed's function throws during a read, the exception
\* reaches the reader, the tracking context is what it was before the read,
\* and the computed is still dirty.
C11_ComputedThrowRestores ==
  (Quiet /\ exc /\ op.kind = "readD") =>
    /\ activeSub = op.sub
    /\ dirty[op.x]

\* C12: an effect that reads a signal and writes a different value to it in
\* the same run terminates: the notification that reaches it while it runs is
\* dropped, so its function runs once per construction or outside write and
\* is not re-run when the run completes; it stays subscribed.
C12_Once ==
  scn = "self" =>
    /\ runs["r1"] <= 1
    /\ Cardinality({i \in DOMAIN stack : stack[i].k = "fn" /\ stack[i].who = "r1"}) <= 1
    /\ (Quiet /\ op.kind = "effect" /\ op.x = "r1") => runs["r1"] = 1
    /\ (WriteReturned /\ "r1" \in op.live) => runs["r1"] = 1
    /\ (Quiet /\ status["r1"] = "live") => Has(subs["c1"], "r1")

C12_SelfWriteTerminates ==
  /\ []C12_Once
  /\ (scn = "self" /\ ~Quiet) ~> Quiet

\* An outside write has re-run the effect, whose own write of a different
\* value notified it while it was running.
C12_Witness ==
  /\ scn = "self" /\ WriteReturned /\ "r1" \in op.live
  /\ value["c1"] = 2 * op.v /\ op.v > 0 /\ runs["r1"] = 1

\* The executions of effect r's function in flight.
InFlight(r) == {i \in DOMAIN stack : stack[i].k = "fn" /\ stack[i].who = r}

\* notify is about to call the run callback of an effect that is running.
CallsRunning ==
  /\ InNotify
  /\ Top.i <= Len(Top.list)
  /\ Top.list[Top.i] \in Reacts
  /\ running[Top.list[Top.i]]

\* C13: every effect has at most one execution of its function in flight,
\* and a call of its run callback while `running` is set returns without
\* calling the function and without touching the effect's links.
C13_OneInFlight ==
  /\ [](\A r \in Reacts : Cardinality(InFlight(r)) <= 1
                           /\ (InFlight(r) # {} => running[r]))
  /\ [][CallsRunning =>
          /\ stack' = [stack EXCEPT ![Len(stack)].i = @ + 1,
                                    ![Len(stack)].inv = Append(@, Top.list[Top.i])]
          /\ UNCHANGED <<subs, order, subscribedTo, running, activeSub, activeSets,
                         runs, lastReads, value, dirty, dval>>]_vars

\* A run callback was called while its effect was running, and returned.
C13_Witness ==
  /\ InNotify /\ Top.i > 1
  /\ Top.list[Top.i - 1] \in Reacts
  /\ InFlight(Top.list[Top.i - 1]) # {}

\* In the cycle (r1: y = 2 * x, r2: x = 2 * y) both equations hold.
CycleStable ==
  /\ value["c2"] = 2 * value["c1"]
  /\ value["c1"] = 2 * value["c2"]

C15_SubscriptionOrder ==
  \A k \in DOMAIN stack :
    (stack[k].k = "notify" /\ stack[k].i = 1 /\ k = Len(stack)) =>
      LET l == stack[k].list
      IN /\ \A i, j \in DOMAIN l : i < j => <<l[i], l[j]>> \in order[stack[k].who]
         /\ \A i, j \in DOMAIN l : <<l[j], l[i]>> \in order[stack[k].who] => j < i
         /\ {l[i] : i \in DOMAIN l} = {cb \in Callbacks : Has(subs[stack[k].who], cb)}

\* A write notifies two effects of which the first to subscribe has re-run in
\* between and so subscribed again after the other.
C15_Witness ==
  /\ scn = "stop" /\ InNotify /\ Top.i = 1
  /\ Top.who = "c1" /\ Top.list = <<"r2", "r1">>
  /\ status["r1"] = "live" /\ status["r2"] = "live"

\* C16: a second call of an effect's disposal handle, right after the first,
\* is a no-op: subscriber collections, the effect's recorded dependencies,
\* values and dirty flags stay as the first call left them and no function
\* is called.
C16_DisposeIdempotent ==
  [][(Quiet /\ op.kind = "dispose" /\ op'.kind = "dispose" /\ op'.x = op.x) =>
       /\ UNCHANGED <<value, subs, subscribedTo, dirty, dval, running,
                      activeSub, activeSets, stack, ret>>
       /\ runs' = Zero(Reacts)
       /\ calls' = Zero(Derivs)]_vars

\* The handle of an effect that had dependencies has been called twice in a
\* row, with another subscriber still on one of them.
C16_Witness ==
  /\ Quiet /\ op.kind = "dispose" /\ op.again
  /\ lastReads[op.x] # {}
  /\ \E c \in lastReads[op.x] : subs[c] # <<>>

\* Some function of the program writes a signal.
Writers(s) ==
  \E id \in Callbacks : \E i \in DOMAIN Prog(s, id) : Prog(s, id)[i].op = "write"

\* C17: there is no batching: every write of a different value to a signal
\* an effect read in its most recent run causes one separate run of the
\* effect, completed before the write returns, so k such writes cause k runs.
\* (Where no function writes, the caller's write is the only write of its
\* operation.)
C17_NoBatching ==
  (WriteReturned /\ ~Writers(scn)) =>
    \A r \in op.live : op.x \in op.pre[r] => runs[r] = 1

\* C18: a read of a signal, or of a computed that is not dirty, made while
\* no computation is active (outside every function, with no tracking
\* context set) returns the current value and leaves every subscriber
\* collection and every recorded dependency list unchanged.
C18_UntrackedRead ==
  [][/\ (Quiet /\ activeSub = None /\ op'.kind = "read") =>
          /\ UNCHANGED <<subs, subscribedTo, value, dval, dirty, running,
                         activeSub, activeSets, stack>>
          /\ ret' = value[op'.x]
     /\ (Quiet /\ activeSub = None /\ op'.kind = "readD" /\ ~dirty[op'.x]) =>
          /\ UNCHANGED <<subs, subscribedTo, value, dval, dirty, running,
                         activeSub, activeSets, stack>>
          /\ ret' = dval[op'.x]
          /\ scn \in Scenarios => ret' = Exec(scn, op'.x, 1, <<>>, value)]_vars

\* A clean computed that has subscribers has been read from outside.
C18_Witness ==
  /\ Quiet /\ op.kind = "readD" /\ op.sub = None /\ calls[op.x] = 0
  /\ subs[op.x] # <<>> /\ ret = dval[op.x] /\ value["c1"] > 0

\* The keys of the array the list's effect ran on last.
Present(arr) == {Key(arr[i]) : i \in DOMAIN arr}

\* C19: after every run of list()'s effect on items with pairwise distinct
\* keys, the container's children are the elements of the items' keys in
\* array order; an element whose key is present before and after an update
\* is the same element, setup is not called again for it, and its item and
\* index signals hold the new item and position; elements of keys no longer
\* present are removed.
C19_KeyedList ==
  /\ [](listState = "active" =>
         /\ children = [i \in DOMAIN items |-> keyToEl[Key(items[i])]]
         /\ \A i \in DOMAIN items :
              /\ keyToEl[Key(items[i])] # NoEl
              /\ keyToItem[Key(items[i])] = items[i]
              /\ keyToIndex[Key(items[i])] = i - 1
              /\ setups[keyToEl[Key(items[i])]] = 1
         /\ \A k \in Keys \ Present(items) : keyToEl[k] = NoEl)
  /\ [][(listState = "active" /\ listState' = "active") =>
          \A k \in Present(items) \cap Present(items') :
            /\ keyToEl'[k] = keyToEl[k]
            /\ setups'[keyToEl[k]] = setups[keyToEl[k]]]_vars

\* The effect has run on [3, 1, 2] with updated items: the element of key 3,
\* cloned after those of keys 1 and 2, is the first child, and the element
\* of key 1 has kept its identity and holds position 1.
C19_Witness ==
  /\ listState = "active" /\ Len(items) = 3
  /\ Key(items[1]) = 3 /\ Key(items[2]) = 1 /\ Key(items[3]) = 2
  /\ madeFor = <<1, 2, 3>> /\ children = <<3, 1, 2>>
  /\ keyToItem[1].text = 2 /\ keyToIndex[1] = 1

\* C20: the cleanup setup returned for an item is called exactly once: when
\* the item's key disappears from the items or when the list is stopped,
\* whichever is first; not while the key is present in the active list, and
\* not again by a second call of stop.
C20_CleanupOnce ==
  \A e \in Els :
    IF e >= nextEl
    THEN cleanups[e] = 0
    ELSE LET held == listState = "active" /\ keyToEl[madeFor[e]] = e
         IN cleanups[e] = IF held \/ ~ReturnsCleanup(madeFor[e]) THEN 0 ELSE 1

\* The list was stopped twice after one item with a cleanup had been
\* removed and while another was present: each cleanup was called once.
C20_Witness ==
  /\ stopCalls = 2
  /\ \E e \in Els : cleanups[e] = 1 /\ ~Has(children, e)
  /\ \E e \in Els : cleanups[e] = 1 /\ Has(children, e)

\* A state the program can observe: no operation is in progress, or the
\* function of an effect is executing.
Observable == Quiet \/ (InFn /\ Top.who \in Reacts)

\* C25: in every state the program can observe, the states in the middle of
\* a notification pass in which an effect's function runs included, a
\* computed whose dirty flag is false holds the value its function returns
\* on the current values of the signals.
C25_CleanIsCurrent ==
  Observable =>
    \A d \in DerivsOf(scn) :
      (made[d] /\ ~dirty[d]) => dval[d] = Exec(scn, d, 1, <<>>, value)

\* The function of effect r is about to return to run.
RunEnds(r) == InFn /\ Top.who = r /\ Ins.op = "ret"

Recorded(r) == {subscribedTo[r][i] : i \in DOMAIN subscribedTo[r]}

\* C26: when an effect's run ends (the effect not disposed meanwhile), its
\* subscribedTo array holds exactly the Sets of the signals and computeds it
\* read directly in that run, and the effect is a subscriber of exactly
\* those: no entry for a Set it did not join, no subscription not recorded.
C26_RecordedExact ==
  \A r \in Reacts :
    (RunEnds(r) /\ status[r] \in {"new", "live"}) =>
      /\ Recorded(r) = lastReads[r]
      /\ SubscribedTo(r) = lastReads[r]

\* C27: when an effect's disposal handle returns, called by the caller or
\* inside a function, after whatever runs, the effect's run is in no
\* subscriber Set of a signal or computed and its subscribedTo is empty.
C27_DisposeUnlinks ==
  [][/\ (Quiet /\ op'.kind = "dispose") =>
          /\ \A x \in Deps : ~Has(subs'[x], op'.x)
          /\ subscribedTo'[op'.x] = <<>>
     /\ (InFn /\ Ins.op = "dispose" /\ status[Ins.x] \notin {"none", "new"}) =>
          /\ \A x \in Deps : ~Has(subs'[x], Ins.x)
          /\ subscribedTo'[Ins.x] = <<>>]_vars

\* The handle of a live effect that read two dependencies in its last run
\* has returned, and another subscriber is still on one of them.
C27_Witness ==
  /\ Quiet /\ op.kind = "dispose" /\ ~op.again /\ op.x \in op.live
  /\ Cardinality(lastReads[op.x]) >= 2
  /\ \E c \in lastReads[op.x] : subs[c] # <<>>
  /\ \A x \in Deps : ~Has(subs[x], op.x)

\* C28: a function that reads a computed while a tracking context is active
\* is registered in the computed's subscriber Set whether the read calls
\* the computed's function or returns the cached value; so a write of a
\* different value to a signal the computed read reaches every effect whose
\* last run got the cached value.
C28_ReaderSubscribed ==
  /\ [][(InFn /\ Ins.op = "read" /\ Ins.x \in Derivs /\ activeSub # None) =>
          Has(subs'[Ins.x], activeSub)]_vars
  /\ [](WriteReturned =>
         \A r \in op.live : \A d \in op.cached[r] :
           ReadsCell(d, op.x, op.pre) => runs[r] >= 1)

\* A write has re-run an effect whose run before it read the computed's
\* cached value.
C28_Witness ==
  /\ WriteReturned
  /\ \E r \in op.live : \E d \in op.cached[r] :
       ReadsCell(d, op.x, op.pre) /\ runs[r] >= 1 /\ Has(subs[d], r)

\* C29: a write of a different value stores the value before it calls any
\* subscriber: when the first subscriber is about to be called the signal
\* holds the new value, and every read of the signal executed during the
\* pass, by the function of an effect or by the function of a computed that
\* is recomputed during the pass, returns the new value.  (Where no function
\* writes, the caller's value is the only new value of the pass.)
C29_StoreThenNotify ==
  [][/\ (Quiet /\ op'.kind = "write" /\ op'.changed) =>
          /\ value'[op'.x] = op'.v
          /\ stack' = <<NotifyFrame(op'.x)>>
     /\ (/\ InFn /\ Ins.op = "read" /\ Ins.x = op.x
         /\ op.kind = "write" /\ op.changed /\ ~Writers(scn)) =>
          stack' = Advance(stack, op.v)]_vars

\* During the pass of a write an effect reads a computed, and the computed's
\* function, called for that read, has read the value just written.
C29_Witness ==
  /\ op.kind = "write" /\ op.changed /\ op.v # 0 /\ ~Writers(scn)
  /\ InFn /\ Top.who \in Derivs /\ op.x \in lastReads[Top.who]
  /\ Top.regs = <<op.v>>
  /\ Len(stack) >= 3 /\ stack[Len(stack) - 1].who \in Reacts
  /\ dval[Top.who] # Undef

\* C30: a computed forwards every notification it receives, comparing
\* nothing: each call of its markDirty sets dirty and notifies its own
\* subscribers, whether or not it was dirty already; so an effect that read
\* computed d in its last run re-runs on every write of a different value
\* to a signal d read, also when d's function returns what it returned
\* before.
C30_ForwardsAlways ==
  /\ [][(InNotify /\ Top.i <= Len(Top.list) /\ Top.list[Top.i] \in Derivs) =>
          /\ dirty'[Top.list[Top.i]]
          /\ stack' = Append([stack EXCEPT ![Len(stack)].i = @ + 1,
                                           ![Len(stack)].inv = Append(@, Top.list[Top.i])],
                             NotifyFrame(Top.list[Top.i]))]_vars
  /\ [](WriteReturned =>
         \A r \in op.live : \A d \in op.pre[r] \cap Derivs :
           ReadsCell(d, op.x, op.pre) => runs[r] >= 1)

\* d1 = count * 0 returns 0 whatever is written; it was dirty already when
\* the write began, and the effect that read it has re-run.
C30_Witness ==
  /\ scn = "same" /\ WriteReturned /\ "d1" \in op.wasDirty
  /\ \E r \in op.live : "d1" \in op.pre[r] /\ runs[r] >= 1
  /\ ~dirty["d1"] => dval["d1"] = 0

\* The components the effect of slot w has created.
Mine(w) == {k \in Comps : owner[k] = w}
IsWhen(w) == Has(Prog(scn, w), Mk)
IsEach(w) == Has(Prog(scn, w), MkAll)

\* C21: a when() has at most one branch component mounted at any time; the
\* component a run of its effect replaces has been unmounted exactly once
\* when the next one is created and mounted; no component is unmounted
\* twice, and none that was never rendered is unmounted.
C21_WhenOneMounted ==
  /\ \A k \in Comps : k >= nextComp => mounts[k] = 0 /\ unmounts[k] = 0
  /\ \A w \in Reacts : IsWhen(w) =>
       /\ Cardinality({k \in Mine(w) : mounts[k] > unmounts[k]}) <= 1
       /\ \A k \in Mine(w) :
            /\ mounts[k] = 1
            /\ unmounts[k] <= 1
            /\ ~Has(comps[w], k) => unmounts[k] = 1

\* C22: on every change of the items each() unmounts every component it
\* rendered before, each exactly once, before it creates a component for
\* the new array, and then renders and mounts one new component per item:
\* a component each() no longer holds has been unmounted exactly once, the
\* ones it holds while mounted are mounted and not unmounted, and between
\* operations there is one per item.
C22_EachRerenders ==
  \A w \in Reacts : IsEach(w) =>
    /\ \A k \in Mine(w) :
         /\ mounts[k] = 1
         /\ unmounts[k] <= 1
         /\ ~Has(comps[w], k) => unmounts[k] = 1
         /\ (Has(comps[w], k) /\ slotUp[w] = "up") => unmounts[k] = 0
    /\ \A i, j \in DOMAIN comps[w] : i # j => comps[w][i] # comps[w][j]
    /\ (Quiet /\ slotUp[w] = "up") => Len(comps[w]) = value["c1"]

\* C23: the router has at most one page mounted at any time: a route change
\* unmounts the current page, once, before the page of the new hash is
\* created and mounted; after destroy() the current page has been unmounted
\* and the hashchange and load events dispatched later create, mount and
\* unmount nothing.
C23_RouterOnePage ==
  /\ [](/\ Cardinality({k \in Comps : mounts[k] > unmounts[k]}) <= 1
        /\ \A k \in Comps :
             /\ mounts[k] = (IF k < nextComp THEN 1 ELSE 0)
             /\ unmounts[k] = (IF k < nextComp /\ k # currentPage THEN 1 ELSE 0)
        /\ currentPage \in {NoPage} \cup {k \in Comps : k = nextComp - 1}
        /\ router = "off" => currentPage = NoPage)
  /\ [][router = "off" =>
          UNCHANGED <<nextComp, mounts, unmounts, currentPage, rootHtml>>]_vars

\* Two pages were shown, destroy() was called, and an event was dispatched
\* after it: both pages are unmounted and nothing else was created.
C23_Witness ==
  /\ router = "off" /\ lateEvent /\ events = <<>>
  /\ nextComp = 3 /\ mounts = [k \in Comps |-> IF k < 3 THEN 1 ELSE 0]
  /\ unmounts = mounts /\ Current \in Routes

\* C24: $on called with a null element in its three-argument form (element,
\* event, handler) returns null without throwing and attaches no listener.
C24_OnNullElement ==
  (onCall.form = 3 /\ onCall.el = NoEl) =>
    /\ ~onThrew
    /\ onRet = NoEl
    /\ listeners = onCall.before

\* The function on top of the call chain reads a signal in this step.
ReadsNow == InFn /\ Ins.op = "read" /\ Ins.x \in Cells

\* C31: nested tracking is saved and restored.  A function that runs is the
\* tracking context, also after an effect was constructed or a computed
\* recomputed inside it: a signal it reads gets it as subscriber and no other,
\* and an effect's reads are recorded in its own array.  When the caller's
\* operation has returned normally no tracking context is active.
C31_ContextRestored ==
  /\ [](/\ InFn => activeSub = Top.who
        /\ (InFn /\ Top.who \in Reacts) => activeSets = Top.who
        /\ (Quiet /\ ~exc) => (activeSub = None /\ activeSets = None))
  /\ [][ReadsNow =>
          /\ Has(subs'[Ins.x], Top.who)
          /\ \A s \in Callbacks \ {Top.who} :
               Has(subs'[Ins.x], s) => Has(subs[Ins.x], s)
          /\ Top.who \in Reacts => Has(subscribedTo'[Top.who], Ins.x)]_vars

\* The outer effect has created an effect and recomputed a computed, and has
\* then read c3: it is the subscriber of c3, the inner effect is not.
C31_Witness ==
  /\ Quiet
  /\ scn = "nestD"
  /\ op.kind = "write" /\ op.changed
  /\ calls["d1"] = 1
  /\ runs["r1"] = 1
  /\ \E i \in Inners : runs[i] = 1 /\ status[i] = "live"
  /\ subs["c3"] = <<"r1">>
  /\ Has(subscribedTo["r1"], "c3")
  /\ activeSub = None

\* The signal the inner function reads, and the inner effects created so far.
InnerCell == IF scn = "nest" THEN "c2" ELSE "c1"
CreatedInners == {i \in Inners : status[i] # "none"}

\* C34: an effect constructed inside another effect's function is not
\* disposed when the outer effect re-runs.  Every run of the outer creates one
\* more inner effect, all of them stay subscribed, and a changing write to
\* the signal only the inner function reads calls that function once for
\* each inner effect: n times after n runs of the outer.
C34_InnersPileUp ==
  (Quiet /\ scn \in NestScenarios) =>
    /\ Cardinality(CreatedInners \ op.live) = runs["r1"]
    /\ \A i \in CreatedInners : status[i] = "live" /\ Has(subs[InnerCell], i)
    /\ (scn = "nest" /\ op.kind = "write" /\ op.x = "c2" /\ op.changed) =>
         \A i \in Inners : runs[i] = IF i \in CreatedInners THEN 1 ELSE 0

\* The outer has run MaxInner times, and a write to the inner's signal has
\* called the inner function MaxInner times.
C34_Witness ==
  /\ Quiet
  /\ scn = "nest"
  /\ op.kind = "write" /\ op.x = "c2" /\ op.changed
  /\ CreatedInners = Inners
  /\ \A i \in Inners : runs[i] = 1
  /\ MaxInner >= 2

\* The links of the subscriber list that starts at link l, by nextSub, and of
\* the dependency list that starts at l, by nextDep.
RECURSIVE SubsFrom(_, _)
SubsFrom(l, fuel) ==
  IF l = NoLink \/ fuel = 0 THEN <<>>
  ELSE <<l>> \o SubsFrom(lk.links[l].nextSub, fuel - 1)

RECURSIVE DepsFrom(_, _)
DepsFrom(l, fuel) ==
  IF l = NoLink \/ fuel = 0 THEN <<>>
  ELSE <<l>> \o DepsFrom(lk.links[l].nextDep, fuel - 1)

SubsList(x) == SubsFrom(lk.subs[x], MaxLinks + 1)
DepsList(s) == DepsFrom(lk.deps[s], MaxLinks + 1)
BothQuiet == Quiet /\ lk.stack = <<>>

\* The function of s reads x twice in a row.
RereadsInRow(s, x) ==
  \E pc \in DOMAIN Prog(scn, s) :
    /\ pc + 1 \in DOMAIN Prog(scn, s)
    /\ Prog(scn, s)[pc] = Rd(x)
    /\ Prog(scn, s)[pc + 1] = Rd(x)

\* C32: in the link-based engine a subscriber that reads the same dependency
\* twice in a row in one run has, after the run, exactly one link to that
\* dependency, in its own dependency list and in the dependency's subscriber
\* list.
C32_OneLinkPerReread ==
  BothQuiet =>
    \A s \in Callbacks : \A x \in Deps :
      (RereadsInRow(s, x) /\ lk.deps[s] # NoLink) =>
        /\ Cardinality({i \in DOMAIN DepsList(s) : lk.links[DepsList(s)[i]].dep = x}) = 1
        /\ Cardinality({i \in DOMAIN SubsList(x) : lk.links[SubsList(x)[i]].sub = s}) = 1

\* C35: in the link-based engine the subscriber list of every dependency is
\* well formed in every state: following nextSub from subs ends, and ends at
\* subsTail; prevSub is the inverse of nextSub; every link on the list has the
\* dependency as its dep; and no link that a cleanup has unlinked is on a list.
C35_ListsWellFormed ==
  \A x \in Deps :
    LET q == SubsList(x)
    IN /\ Len(q) <= MaxLinks
       /\ \A i \in DOMAIN q : q[i] \in DOMAIN lk.links
       /\ (q = <<>>) <=> (lk.subsTail[x] = NoLink)
       /\ q # <<>> => q[Len(q)] = lk.subsTail[x]
       /\ \A i \in DOMAIN q :
            /\ lk.links[q[i]].dep = x
            /\ lk.links[q[i]].prevSub = IF i = 1 THEN NoLink ELSE q[i - 1]
            /\ ~lk.links[q[i]].gone

\* A disposal has unlinked an effect from a list on which other links stay.
C35_Witness ==
  /\ BothQuiet
  /\ op.kind = "dispose"
  /\ lk.deps[op.x] = NoLink
  /\ lk.status[op.x] = "live"
  /\ \E x \in Deps : op.x \in op.live /\ x \in op.pre[op.x] /\ Len(SubsList(x)) >= 2

\* The notification passes in progress, of both engines.
Passes ==
  {stack[j] : j \in {m \in DOMAIN stack : stack[m].k = "notify"}}
  \cup {lk.stack[j] : j \in {m \in DOMAIN lk.stack : lk.stack[m].k = "notify"}}

\* C33: a notification pass works on the subscribers present when it starts.
\* It calls no subscriber twice, also not one that removed and re-added
\* itself in its re-run; it calls no subscriber added while it runs; and when
\* it ends it has made as many calls as there were subscribers when it
\* started.  In both engines.
C33_PassOnSnapshot ==
  \A f \in Passes :
    /\ \A a, b \in DOMAIN f.inv : f.inv[a] = f.inv[b] => a = b
    /\ \A a \in DOMAIN f.inv : f.inv[a] \in f.at
    /\ f.i > Len(f.list) => Len(f.inv) = Cardinality(f.at)

\* A pass of the link-based engine over the subscribers of c1 is over: an
\* effect it called has unlinked and linked itself again, and an effect
\* created while it ran is linked to c1 and was not called.  The pass of the
\* Set-based engine for the same write is over too and did not run the new
\* effect.
C33_Witness ==
  /\ Quiet
  /\ lk.stack # <<>>
  /\ LET f == lk.stack[Len(lk.stack)]
     IN /\ f.k = "notify"
        /\ f.who = "c1"
        /\ f.i > Len(f.list)
        /\ \E r \in Inners :
             /\ Has(f.inv, r)
             /\ \E j \in DOMAIN SubsList("c1") : lk.links[SubsList("c1")[j]].sub = r
        /\ \E n \in Inners \ f.at :
             /\ \E j \in DOMAIN SubsList("c1") : lk.links[SubsList("c1")[j]].sub = n
             /\ lk.runs[n] = 1
             /\ Has(subs["c1"], n)
             /\ runs[n] = 1

\* C36: the Set-based engine and the link-based engine are observationally
\* equivalent.  Given the same operations by the same application, whose
\* functions do not throw, when an operation has returned both have called
\* every effect's and every computed's function the same number of times
\* during it and have returned the same value to the caller.
C36_EnginesAgree ==
  BothQuiet =>
    /\ \A r \in Reacts : runs[r] = lk.runs[r]
    /\ \A d \in Derivs : calls[d] = lk.calls[d]
    /\ ret = lk.ret

\* C4: an effect is subscribed to exactly the signals it read in its most
\* recent run, so the effects a write notifies are ones that read the written
\* signal in their most recent run; and a write re-runs an effect that reads
\* only signals exactly when the written signal is one it read in that run
\* (cond ? a : b: a write to the branch not taken does not re-run it, a write
\* to the one taken does).
C4_ConditionalTracking ==
  /\ \A r \in Reacts : status[r] \in {"new", "live"} =>
       \A c \in Cells : Has(subs[c], r) <=> c \in lastReads[r]
  /\ (InNotify /\ Top.i = 1 /\ Top.who \in Cells) =>
       \A j \in DOMAIN Top.list :
         (Top.list[j] \in Reacts /\ status[Top.list[j]] \in {"new", "live"})
           => Top.who \in lastReads[Top.list[j]]
  /\ (WriteReturned /\ ~Writers(scn)) =>
       \A r \in op.live : op.pre[r] \subseteq Cells =>
         runs[r] = IF op.x \in op.pre[r] THEN 1 ELSE 0

\* After cond was written false, a write to b has re-run the effect, and the
\* effect no longer reads a.
C4_Witness ==
  /\ scn = "cond" /\ WriteReturned /\ op.x = "c3"
  /\ "r1" \in op.live /\ op.pre["r1"] = {"c1", "c3"} /\ runs["r1"] = 1

\* C6: a write of the value already stored invokes no subscriber and changes
\* neither the value nor any subscriber collection nor any dirty flag, and
\* returns the value passed; from the caller and from inside a function.
C6_EqualWriteNoop ==
  [][/\ (Quiet /\ op'.kind = "write" /\ op'.v = value[op'.x]) =>
          /\ UNCHANGED <<value, subs, order, dval, dirty, running, subscribedTo,
                         activeSub, activeSets, stack>>
          /\ runs' = Zero(Reacts)
          /\ ret' = op'.v
     /\ (InFn /\ Ins.op = "write" /\ value[Ins.x] = Last(Top.regs) * Ins.n) =>
          /\ UNCHANGED <<value, subs, order, dval, dirty, running, subscribedTo,
                         activeSub, activeSets, runs>>
          /\ stack' = Skip(stack)]_vars

\* An equal write to a signal that has subscribers has returned.
C6_Witness ==
  /\ Quiet /\ op.kind = "write" /\ ~op.changed /\ subs[op.x] # <<>>
  /\ ret = op.v /\ value[op.x] = op.v

\* C8: a computed's function runs only inside that computed's own read handle,
\* called while it is dirty: the frame below it is the reader (the caller's
\* read or a function at its read of this computed), never a notification;
\* it has not run before the handle was first called.
C8_Lazy ==
  /\ \A i \in DOMAIN stack :
       (stack[i].k = "fn" /\ stack[i].who \in Derivs) =>
         /\ dirty[stack[i].who]
         /\ IF i = 1
            THEN op.kind = "readD" /\ op.x = stack[i].who
            ELSE /\ stack[i - 1].k = "fn"
                 /\ Prog(scn, stack[i - 1].who)[stack[i - 1].pc] = Rd(stack[i].who)
  /\ \A d \in Derivs :
       (dval[d] # Undef \/ calls[d] > 0 \/ recomp[d] > 0) => everRead[d] /\ made[d]

\* A write has reached a computed that was computed before: it is dirty, its
\* notification is being forwarded, and its function has not been called.
C8_Witness ==
  /\ InNotify /\ Top.who \in Derivs /\ op.kind = "write"
  /\ dirty[Top.who] /\ dval[Top.who] # Undef /\ calls[Top.who] = 0

\* C9: whenever no operation is in progress, a clean computed holds the value
\* of its function on the current signals, and a read that has just returned
\* returned that value.
C9_ReadsCurrent ==
  Quiet =>
    \A d \in DerivsOf(scn) : made[d] =>
      /\ ~dirty[d] => dval[d] = Exec(scn, d, 1, <<>>, value)
      /\ (op.kind = "readD" /\ op.x = d) => ret = Exec(scn, d, 1, <<>>, value)

\* The diamond after source was written 2: bottom reads 10.
C9_Witness ==
  /\ scn = "diamond" /\ Quiet /\ op.kind = "readD" /\ op.x = "d3"
  /\ value["c1"] = 2 /\ ret = 10 /\ status["r1"] = "live"

====
